---- MODULE Spec2Model ----
(***************************************************************************)
(* Registry store (src/interfaces/database.py) and sync orchestrator       *)
(* (src/tasks.py) of the HashTensor validator.                             *)
(*                                                                         *)
(* Representation choices                                                  *)
(*  - a hotkey or worker name is a sequence of characters (small numbers), *)
(*  - a float registration_time (seconds) is the integer number of         *)
(*    half-microseconds it denotes, so that int(t * 1_000_000) is a real   *)
(*    truncation (t \div 2) and two distinct floats can share one          *)
(*    registration_time_int,                                               *)
(*  - a table is the set of its rows; the primary key is enforced by the   *)
(*    commit, as SQLite does, not by the representation,                   *)
(*  - a signature is the record of who signed what; verification compares. *)
(***************************************************************************)
EXTENDS Integers, Sequences, FiniteSets, TLC

VARIABLES
    reg,       \* local table hotkey_worker: set of HotkeyWorker rows
    offsets,   \* local table validator_sync_offset: set of ValidatorSyncOffset rows
    now,       \* time.time() of the local process (whole ticks)
    peerReg,   \* peerReg[p]: table hotkey_worker of the remote validator p
    pc,        \* position of sync_hotkey_workers_task: "idle" or "sync" (in its loop)
    queue,     \* filtered_endpoints still to be synced in the running pass
    last,      \* outcome of the last call or peer iteration (what it raised or logged)
    hist,      \* per peer: successful fetches since the peer's table last changed
    dynamic_config, \* local table dynamic_config: set of DynamicConfig rows
    pub,       \* what the last run of set_weights_task did (ledger calls, logs, exception)
    pub_args,  \* what the last run of set_weights_task was given by its collaborators
    manager,   \* MappingManager: its fields _mapping and _last_update
    read,      \* what the last MappingManager.get_mapping call returned and did
    changed_at, \* time of the last commit that changed the active mapping
    fetched,   \* what MetricsClient.fetch_metrics returned to the last rating run
    hotkey_metrics, \* the dict hotkey -> list of MinerMetrics given to rate_all last
    scored,    \* what the last rate_all call returned or raised
    response,  \* the last HTTP request handled and the response it was given
    readers    \* per task that reads the mapping cache: where it is in get_mapping

vars == <<reg, offsets, now, peerReg, pc, queue, last, hist,
          dynamic_config, pub, pub_args, manager, read, changed_at,
          fetched, hotkey_metrics, scored, response, readers>>

\* the state of the weight publisher
pubvars == <<dynamic_config, pub, pub_args>>

\* the state of the mapping cache
cachevars == <<manager, read>>

\* the state of the rating engine
ratevars == <<fetched, hotkey_metrics, scored>>

\* the state of the HTTP surface
apivars == <<response>>

-----------------------------------------------------------------------------
(* Bounds of the model *)

\* max_workers of DatabaseService (config.max_workers_per_hotkey, 30 in the
\* source), scaled down
max_workers == 1
\* page_size default of GET /hotkey_workers (100 in the source), scaled down
page_size == 1
\* registration times range over 2..MaxTime half-microseconds
MaxTime == 3
\* rows the local table can hold
MaxRows == 2
\* rows a peer's table can hold
MaxPeerRows == 2
\* registration times at a peer range over 2..MaxPeerTime half-microseconds
MaxPeerTime == 4
\* records in a response of a peer whose table is not modelled
MaxBatch == 2

\* time.time() ranges over 0..MaxClock (whole seconds)
MaxClock == 5
\* config.set_weights_interval.total_seconds() (3600 in the source), scaled down
set_weights_interval == 2
\* cache_ttl of MappingManager (config.cache_ttl, 15 seconds in the source),
\* scaled down
cache_ttl == 1
\* ratings range over 0..MaxRating
MaxRating == 2
\* registration_time_tolerance of ValidatorSettings in seconds (60 in the
\* source), scaled down
registration_time_tolerance == 1

Hotkeys == {<<1>>, <<2>>}
Workers == {<<1, 7>>, <<1, 2>>, <<7>>}
Peers == {"v1", "v2"}
Times == 2..MaxTime
PeerTimes == 2..MaxPeerTime
\* NULL of the column unbind_signature
None == "NULL"
\* unbind signatures a request can carry (a str; may be empty)
UnbindSigs == {"", "ab"}

-----------------------------------------------------------------------------
(* Signatures: src/utils.py verify_signature *)

\* canonical message: json.dumps(reg_dict, sort_keys=True, separators=(",", ":"))
reg_json(hotkey, worker, registration_time) ==
    <<"hotkey", hotkey, "registration_time", registration_time, "worker", worker>>

\* the signature the holder of key `signer` produces over `message`
Sign(signer, message) == [signer |-> signer, message |-> message]

verify_signature(hotkey, message, signature) ==
    signature.signer = hotkey /\ signature.message = message

\* the key whose holder runs the worker and signs every claim made about it:
\* a claim binding the worker to another hotkey carries a signature that does
\* not verify against that hotkey
Owner(worker) == IF worker = <<1, 2>> THEN <<2>> ELSE <<1>>

\* the signature a claim (hotkey, worker, t) is sent with
Signature(hotkey, worker, t) == Sign(Owner(worker), reg_json(hotkey, worker, t))

-----------------------------------------------------------------------------
(* DatabaseService: src/interfaces/database.py *)

HotkeyWorker(worker, hotkey, registration_time, registration_time_int, signature) ==
    [worker |-> worker, hotkey |-> hotkey,
     registration_time |-> registration_time,
     registration_time_int |-> registration_time_int,
     signature |-> signature, unbind_signature |-> None]

ValidatorSyncOffset(hotkey, last_registration_time, last_sync_time) ==
    [hotkey |-> hotkey, last_registration_time |-> last_registration_time,
     last_sync_time |-> last_sync_time]

\* int(x * 1_000_000) of a float x given in half-microseconds
int_micros(t) == t \div 2

\* session.add + session.commit of one row: the primary key `worker` is unique
commit_insert(table, row) ==
    IF \E r \in table : r.worker = row.worker
    THEN [reg |-> table, result |-> "IntegrityError"]
    ELSE [reg |-> table \cup {row}, result |-> "ok"]

\* the count without its unbind_signature=None filter
worker_count_all(table, hotkey) ==
    Cardinality({r \in table : r.hotkey = hotkey})

\* rows counted by filter_by(hotkey=hotkey, unbind_signature=None).count()
worker_count(table, hotkey) ==
    Cardinality({r \in table : r.hotkey = hotkey /\ r.unbind_signature = None})

\* add_mapping without its "Worker already registered" check
add_mapping_unchecked(table, hotkey, worker, signature, registration_time) ==
    IF worker_count(table, hotkey) >= max_workers
    THEN [reg |-> table, result |-> "QuotaExceeded"]
    ELSE commit_insert(table,
            HotkeyWorker(worker, hotkey, registration_time,
                         int_micros(registration_time), signature))

\* add_mapping comparing the count with > instead of >=
add_mapping_off_by_one(table, hotkey, worker, signature, registration_time) ==
    IF \E r \in table : r.worker = worker
    THEN [reg |-> table, result |-> "Conflict"]
    ELSE IF worker_count(table, hotkey) > max_workers
    THEN [reg |-> table, result |-> "QuotaExceeded"]
    ELSE commit_insert(table,
            HotkeyWorker(worker, hotkey, registration_time,
                         int_micros(registration_time), signature))

\* add_mapping with a float registration_time (the isinstance branch taken by
\* every caller that passes the JSON number of a claim)
add_mapping(table, hotkey, worker, signature, registration_time) ==
    IF \E r \in table : r.worker = worker
    THEN [reg |-> table, result |-> "Conflict"]
    ELSE IF worker_count(table, hotkey) >= max_workers
    THEN [reg |-> table, result |-> "QuotaExceeded"]
    ELSE commit_insert(table,
            HotkeyWorker(worker, hotkey, registration_time,
                         int_micros(registration_time), signature))

\* truth value of an Optional[str]
Truthy(s) == s # None /\ s # ""

mark_worker_unbound(table, hotkey, worker, unbind_signature) ==
    LET objs == {r \in table : r.hotkey = hotkey /\ r.worker = worker}
    IN  IF objs = {}
        THEN [reg |-> table, result |-> "NotFound"]
        ELSE LET obj == CHOOSE r \in objs : TRUE
             IN  IF Truthy(obj.unbind_signature)
                 THEN [reg |-> table, result |-> "AlreadyUnbound"]
                 ELSE [reg |-> (table \ {obj}) \cup
                                 {[obj EXCEPT !.unbind_signature = unbind_signature]},
                       result |-> "ok"]

get_validator_sync_offset(table, hotkey) ==
    IF \E o \in table : o.hotkey = hotkey
    THEN (CHOOSE o \in table : o.hotkey = hotkey).last_registration_time
    ELSE 0

update_validator_sync_offset(table, hotkey, registration_time, time) ==
    {o \in table : o.hotkey # hotkey}
        \cup {ValidatorSyncOffset(hotkey, registration_time, time)}

-----------------------------------------------------------------------------
(* GET /hotkey_workers as a peer serves it: get_hotkey_workers_by_time *)

\* the dict returned for a row (unbind_signature is not part of it)
worker_obj(row) ==
    [worker |-> row.worker, hotkey |-> row.hotkey,
     registration_time |-> row.registration_time,
     registration_time_int |-> row.registration_time_int,
     signature |-> row.signature]

\* the sequences ORDER BY registration_time_int can produce from a set of rows
\* (rows with equal keys come in an order the query does not fix)
RECURSIVE order_by(_)
order_by(rows) ==
    IF rows = {} THEN {<<>>}
    ELSE LET firsts == {r \in rows : \A q \in rows :
                            r.registration_time_int <= q.registration_time_int}
         IN  UNION {{<<r>> \o tl : tl \in order_by(rows \ {r})} : r \in firsts}

\* .offset((page_number - 1) * page_size).limit(page_size) of one ordering
page_of(ordered, size, page_number) ==
    SubSeq(ordered,
           (page_number - 1) * size + 1,
           IF page_number * size < Len(ordered) THEN page_number * size
                                                ELSE Len(ordered))

\* the responses get_hotkey_workers_by_time can give
get_hotkey_workers_by_time(table, since_timestamp, size, page_number) ==
    LET since_ts_int == int_micros(since_timestamp)
        query == {r \in table : r.registration_time_int > since_ts_int}
    IN  {[i \in 1..Len(pg) |-> worker_obj(pg[i])] :
            pg \in {page_of(o, size, page_number) : o \in order_by(query)}}

\* fetch_hotkey_workers_from_validator passes since_timestamp only: the peer
\* applies its defaults page_size and page_number = 1
fetch_hotkey_workers_from_validator(table, since_timestamp) ==
    get_hotkey_workers_by_time(table, since_timestamp, page_size, 1)

-----------------------------------------------------------------------------
(* sync_hotkey_workers_task: src/tasks.py *)

\* worker_obj["worker"], ["hotkey"], ["registration_time"], ["signature"]
\* (lines 135-138) all find their key; otherwise the subscript raises KeyError
WellFormed(w) ==
    {"worker", "hotkey", "registration_time", "signature"} \subseteq DOMAIN w

\* the loop without its `exists` query: a known worker reaches add_mapping
RECURSIVE process_workers_no_exists(_, _, _)
process_workers_no_exists(workers, i, st) ==
    IF i > Len(workers) THEN st
    ELSE IF ~WellFormed(workers[i]) THEN [st EXCEPT !.raised = "KeyError"]
    ELSE
      LET w == workers[i]
          latest == IF w.registration_time > st.latest
                    THEN w.registration_time ELSE st.latest
          message == reg_json(w.hotkey, w.worker, w.registration_time)
          res == add_mapping(st.reg, w.hotkey, w.worker, w.signature,
                             w.registration_time)
      IN  IF ~verify_signature(w.hotkey, message, w.signature)
          THEN process_workers_no_exists(workers, i + 1,
                   [st EXCEPT !.latest = latest, !.failed = @ + 1])
          ELSE IF res.result = "ok"
          THEN process_workers_no_exists(workers, i + 1,
                   [st EXCEPT !.latest = latest, !.reg = res.reg, !.added = @ + 1])
          ELSE process_workers_no_exists(workers, i + 1,
                   [st EXCEPT !.latest = latest, !.failed = @ + 1])

\* the loop without its verify_signature test: every record of an unknown
\* worker reaches add_mapping
RECURSIVE process_workers_no_verify(_, _, _)
process_workers_no_verify(workers, i, st) ==
    IF i > Len(workers) THEN st
    ELSE IF ~WellFormed(workers[i]) THEN [st EXCEPT !.raised = "KeyError"]
    ELSE
      LET w == workers[i]
          latest == IF w.registration_time > st.latest
                    THEN w.registration_time ELSE st.latest
          exists == \E r \in st.reg : r.worker = w.worker
          res == add_mapping(st.reg, w.hotkey, w.worker, w.signature,
                             w.registration_time)
      IN  IF exists
          THEN process_workers_no_verify(workers, i + 1,
                   [st EXCEPT !.latest = latest, !.skipped = @ + 1])
          ELSE IF res.result = "ok"
          THEN process_workers_no_verify(workers, i + 1,
                   [st EXCEPT !.latest = latest, !.reg = res.reg, !.added = @ + 1])
          ELSE process_workers_no_verify(workers, i + 1,
                   [st EXCEPT !.latest = latest, !.failed = @ + 1])

\* the loop `for worker_obj in workers` from record i on; st carries the
\* table, latest_registration_time and the page counters
RECURSIVE process_workers(_, _, _)
process_workers(workers, i, st) ==
    IF i > Len(workers) THEN st
    ELSE IF ~WellFormed(workers[i]) THEN [st EXCEPT !.raised = "KeyError"]
    ELSE
      LET w == workers[i]
          latest == IF w.registration_time > st.latest
                    THEN w.registration_time ELSE st.latest
          exists == \E r \in st.reg : r.worker = w.worker
          message == reg_json(w.hotkey, w.worker, w.registration_time)
          res == add_mapping(st.reg, w.hotkey, w.worker, w.signature,
                             w.registration_time)
      IN  IF exists
          THEN process_workers(workers, i + 1,
                   [st EXCEPT !.latest = latest, !.skipped = @ + 1])
          ELSE IF ~verify_signature(w.hotkey, message, w.signature)
          THEN process_workers(workers, i + 1,
                   [st EXCEPT !.latest = latest, !.failed = @ + 1])
          ELSE IF res.result = "ok"
          THEN process_workers(workers, i + 1,
                   [st EXCEPT !.latest = latest, !.reg = res.reg, !.added = @ + 1])
          ELSE process_workers(workers, i + 1,
                   [st EXCEPT !.latest = latest, !.failed = @ + 1])

\* the iteration with latest_registration_time started at 0.0 instead of at
\* the stored offset, and the offset written whenever records were seen
sync_validator_from_zero(table, offs, hotkey, workers, time) ==
    LET st == process_workers(workers, 1,
                  [reg |-> table, latest |-> 0,
                   added |-> 0, skipped |-> 0, failed |-> 0, raised |-> ""])
    IN  IF workers = <<>>
        THEN [reg |-> table, offsets |-> offs,
              added |-> 0, skipped |-> 0, failed |-> 0, raised |-> ""]
        ELSE IF st.raised # ""
        THEN [reg |-> st.reg, offsets |-> offs,
              added |-> st.added, skipped |-> st.skipped, failed |-> st.failed,
              raised |-> st.raised]
        ELSE [reg |-> st.reg,
              offsets |-> IF st.latest > 0
                          THEN update_validator_sync_offset(offs, hotkey, st.latest, time)
                          ELSE offs,
              added |-> st.added, skipped |-> st.skipped, failed |-> st.failed,
              raised |-> ""]

\* one iteration of `for ip, port, hotkey in filtered_endpoints`, given the
\* response `workers` of the peer and the clock value `time`
\* (an exception of the record loop leaves the iteration before the offset
\* update; the rows committed before it stay)
sync_validator(table, offs, hotkey, workers, time) ==
    LET last_registration_time == get_validator_sync_offset(offs, hotkey)
        st == process_workers(workers, 1,
                  [reg |-> table, latest |-> last_registration_time,
                   added |-> 0, skipped |-> 0, failed |-> 0, raised |-> ""])
    IN  IF workers = <<>>
        THEN [reg |-> table, offsets |-> offs,
              added |-> 0, skipped |-> 0, failed |-> 0, raised |-> ""]
        ELSE IF st.raised # ""
        THEN [reg |-> st.reg, offsets |-> offs,
              added |-> st.added, skipped |-> st.skipped, failed |-> st.failed,
              raised |-> st.raised]
        ELSE [reg |-> st.reg,
              offsets |-> IF st.latest > last_registration_time
                          THEN update_validator_sync_offset(offs, hotkey, st.latest, time)
                          ELSE offs,
              added |-> st.added, skipped |-> st.skipped, failed |-> st.failed,
              raised |-> ""]

-----------------------------------------------------------------------------
(* DynamicConfigService: src/interfaces/database.py *)

DynamicConfig(key, value) == [key |-> key, value |-> value]

_get(table, key) ==
    IF \E row \in table : row.key = key
    THEN (CHOOSE row \in table : row.key = key).value
    ELSE None

_set(table, key, value) ==
    {row \in table : row.key # key} \cup {DynamicConfig(key, value)}

\* float(value), 0.0 when it raises TypeError (None) or ValueError (no number)
float_or_zero(value) ==
    IF \E t \in 0..MaxClock : ToString(t) = value
    THEN CHOOSE t \in 0..MaxClock : ToString(t) = value
    ELSE 0

get_last_set_weights_time(table) ==
    float_or_zero(_get(table, "last_set_weights_time"))

set_last_set_weights_time(table, timestamp) ==
    _set(table, "last_set_weights_time", ToString(timestamp))

-----------------------------------------------------------------------------
(* Weight publisher: src/set_weights.py, src/tasks.py set_weights_task *)

\* what a run did: how it ended ("returned" or the exception raised), the
\* weights.set_node_weights calls it made, its log records, and the value of
\* time.time() it read
Ran(result, calls, logs, time) ==
    [result |-> result, calls |-> calls, logs |-> logs, time |-> time]

Log(level, message) == [level |-> level, message |-> message]

\* any(hotkey_to_rating.values())
any_rating(hotkey_to_rating) ==
    \E h \in DOMAIN hotkey_to_rating : hotkey_to_rating[h] # 0

\* set_weights sending a weight for the rated nodes only
set_weights_rated_only(hotkey_to_rating, nodes, ss58_address, sent) ==
    IF DOMAIN hotkey_to_rating = {}
    THEN [raised |-> "", value |-> "None", calls |-> <<>>,
          logs |-> <<Log("warning", "No ratings provided, skipping weight set")>>]
    ELSE IF ~any_rating(hotkey_to_rating)
    THEN [raised |-> "", value |-> "None", calls |-> <<>>,
          logs |-> <<Log("warning", "All ratings are 0, skipping weight set")>>]
    ELSE IF ~\E i \in 1..Len(nodes) : nodes[i].hotkey = ss58_address
    THEN [raised |-> "ValueError", value |-> "None", calls |-> <<>>,
          logs |-> <<Log("error", "Validator node not found for hotkey")>>]
    ELSE
      LET first == CHOOSE i \in 1..Len(nodes) :
                      /\ nodes[i].hotkey = ss58_address
                      /\ \A j \in 1..(i - 1) : nodes[j].hotkey # ss58_address
          validator_node_id == nodes[first].node_id
          rated == SelectSeq(nodes, LAMBDA n : n.hotkey \in DOMAIN hotkey_to_rating)
          node_ids == [i \in 1..Len(rated) |-> rated[i].node_id]
          node_weights == [i \in 1..Len(rated) |-> hotkey_to_rating[rated[i].hotkey]]
      IN  [raised |-> "", value |-> IF sent THEN "True" ELSE "False",
           calls |-> <<[node_ids |-> node_ids, node_weights |-> node_weights,
                        validator_node_id |-> validator_node_id]>>,
           logs |-> <<Log("info", "Validator node id")>>]

\* set_weights(hotkey_to_rating, substrate, keypair, netuid): nodes is what
\* get_nodes_for_netuid_cached returns, ss58_address the local hotkey, sent
\* the value weights.set_node_weights returns if it is called.
\* value is what the function returns: "None", "True" or "False"
set_weights(hotkey_to_rating, nodes, ss58_address, sent) ==
    IF DOMAIN hotkey_to_rating = {}
    THEN [raised |-> "", value |-> "None", calls |-> <<>>,
          logs |-> <<Log("warning", "No ratings provided, skipping weight set")>>]
    ELSE IF ~any_rating(hotkey_to_rating)
    THEN [raised |-> "", value |-> "None", calls |-> <<>>,
          logs |-> <<Log("warning", "All ratings are 0, skipping weight set")>>]
    ELSE IF ~\E i \in 1..Len(nodes) : nodes[i].hotkey = ss58_address
    THEN [raised |-> "ValueError", value |-> "None", calls |-> <<>>,
          logs |-> <<Log("error", "Validator node not found for hotkey")>>]
    ELSE
      LET first == CHOOSE i \in 1..Len(nodes) :
                      /\ nodes[i].hotkey = ss58_address
                      /\ \A j \in 1..(i - 1) : nodes[j].hotkey # ss58_address
          validator_node_id == nodes[first].node_id
          node_ids == [i \in 1..Len(nodes) |-> nodes[i].node_id]
          node_weights == [i \in 1..Len(nodes) |->
                              IF nodes[i].hotkey \in DOMAIN hotkey_to_rating
                              THEN hotkey_to_rating[nodes[i].hotkey] ELSE 0]
      IN  [raised |-> "", value |-> IF sent THEN "True" ELSE "False",
           calls |-> <<[node_ids |-> node_ids, node_weights |-> node_weights,
                        validator_node_id |-> validator_node_id]>>,
           logs |-> <<Log("info", "Validator node id")>>]

\* set_weights_task without the test of the interval
set_weights_task_ungated(table, time, computed, nodes, ss58_address, sent) ==
    LET sw == set_weights(computed.ratings, nodes, ss58_address, sent)
    IN  IF computed.raised # ""
        THEN [table |-> table,
              ran |-> Ran(computed.raised, <<>>,
                          <<Log("info", "Setting weights")>>, time)]
        ELSE IF sw.raised # ""
        THEN [table |-> table,
              ran |-> Ran(sw.raised, sw.calls,
                          <<Log("info", "Setting weights")>> \o sw.logs, time)]
        ELSE IF sw.value = "True"
        THEN [table |-> set_last_set_weights_time(table, time),
              ran |-> Ran("returned", sw.calls,
                          <<Log("info", "Setting weights")>> \o sw.logs, time)]
        ELSE [table |-> table,
              ran |-> Ran("returned", sw.calls,
                          <<Log("info", "Setting weights")>> \o sw.logs
                              \o <<Log("error", "Failed to set weights")>>, time)]

\* set_weights_task storing the time whenever set_weights returned, whatever
\* it returned
set_weights_task_always_stores(table, time, computed, nodes, ss58_address, sent) ==
    LET interval == set_weights_interval
        last_set == get_last_set_weights_time(table)
        sw == set_weights(computed.ratings, nodes, ss58_address, sent)
    IN  IF time - last_set < interval
        THEN [table |-> table,
              ran |-> Ran("returned", <<>>,
                          <<Log("debug", "Not setting weights")>>, time)]
        ELSE IF computed.raised # ""
        THEN [table |-> table,
              ran |-> Ran(computed.raised, <<>>,
                          <<Log("info", "Setting weights")>>, time)]
        ELSE IF sw.raised # ""
        THEN [table |-> table,
              ran |-> Ran(sw.raised, sw.calls,
                          <<Log("info", "Setting weights")>> \o sw.logs, time)]
        ELSE [table |-> set_last_set_weights_time(table, time),
              ran |-> Ran("returned", sw.calls,
                          <<Log("info", "Setting weights")>> \o sw.logs, time)]

\* set_weights_task: table is dynamic_config, time the value of time.time(),
\* computed what validator.compute_ratings() did: the ratings it returned or
\* the exception it raised, which nothing in the task catches
set_weights_task(table, time, computed, nodes, ss58_address, sent) ==
    LET interval == set_weights_interval
        last_set == get_last_set_weights_time(table)
        sw == set_weights(computed.ratings, nodes, ss58_address, sent)
    IN  IF time - last_set < interval
        THEN [table |-> table,
              ran |-> Ran("returned", <<>>,
                          <<Log("debug", "Not setting weights")>>, time)]
        ELSE IF computed.raised # ""
        THEN [table |-> table,
              ran |-> Ran(computed.raised, <<>>,
                          <<Log("info", "Setting weights")>>, time)]
        ELSE IF sw.raised # ""
        THEN [table |-> table,
              ran |-> Ran(sw.raised, sw.calls,
                          <<Log("info", "Setting weights")>> \o sw.logs, time)]
        ELSE IF sw.value = "True"
        THEN [table |-> set_last_set_weights_time(table, time),
              ran |-> Ran("returned", sw.calls,
                          <<Log("info", "Setting weights")>> \o sw.logs, time)]
        ELSE [table |-> table,
              ran |-> Ran("returned", sw.calls,
                          <<Log("info", "Setting weights")>> \o sw.logs
                              \o <<Log("error", "Failed to set weights")>>, time)]

-----------------------------------------------------------------------------
(* Mapping cache: src/mapping.py, SqliteMappingSource of database.py *)

\* load_mapping keeping the rows whose unbind_signature is falsy instead of
\* NULL
load_mapping_falsy(table) ==
    LET rows == {r \in table : ~Truthy(r.unbind_signature)}
    IN  [w \in {r.worker : r \in rows} |->
            (CHOOSE r \in rows : r.worker = w).hotkey]

\* SqliteMappingSource.load_mapping: the dict worker -> hotkey of the rows
\* with unbind_signature IS NULL
load_mapping(table) ==
    LET rows == {r \in table : r.unbind_signature = None}
    IN  [w \in {r.worker : r \in rows} |->
            (CHOOSE r \in rows : r.worker = w).hotkey]

\* MappingManager.__init__
MappingManager == [mapping |-> <<>>, last_update |-> 0]

\* what a get_mapping call returned, whether it called the source, and when
Got(value, loaded, time) == [value |-> value, loaded |-> loaded, time |-> time]

\* get_mapping without `self._last_update = now`
get_mapping_unstamped(mgr, table, time) ==
    IF time - mgr.last_update > cache_ttl
    THEN [mgr |-> [mapping |-> load_mapping(table), last_update |-> mgr.last_update],
          got |-> Got(load_mapping(table), TRUE, time)]
    ELSE [mgr |-> mgr, got |-> Got(mgr.mapping, FALSE, time)]

\* get_mapping reloading one second late
get_mapping_late(mgr, table, time) ==
    IF time - mgr.last_update > cache_ttl + 1
    THEN [mgr |-> [mapping |-> load_mapping(table), last_update |-> time],
          got |-> Got(load_mapping(table), TRUE, time)]
    ELSE [mgr |-> mgr, got |-> Got(mgr.mapping, FALSE, time)]

\* MappingManager.get_mapping at time.time() = time, table being what the
\* source reads
get_mapping(mgr, table, time) ==
    IF time - mgr.last_update > cache_ttl
    THEN [mgr |-> [mapping |-> load_mapping(table), last_update |-> time],
          got |-> Got(load_mapping(table), TRUE, time)]
    ELSE [mgr |-> mgr, got |-> Got(mgr.mapping, FALSE, time)]

\* the time of the last commit that changed what load_mapping returns
committed(table, table2, time, before) ==
    IF load_mapping(table2) # load_mapping(table) THEN time ELSE before

-----------------------------------------------------------------------------
(* Floats of the rating engine as exact fractions n/d, d > 0, in lowest terms *)

RECURSIVE gcd(_, _)
gcd(a, b) == IF b = 0 THEN a ELSE gcd(b, a % b)

Q(n, d) ==
    LET g == gcd(IF n < 0 THEN -n ELSE n, d)
    IN  [n |-> n \div g, d |-> d \div g]

QAdd(a, b) == Q(a.n * b.d + b.n * a.d, a.d * b.d)
QSub(a, b) == Q(a.n * b.d - b.n * a.d, a.d * b.d)
QMul(a, b) == Q(a.n * b.n, a.d * b.d)
QLe(a, b) == a.n * b.d <= b.n * a.d
QMin(a, b) == IF QLe(a, b) THEN a ELSE b
QMax(a, b) == IF QLe(a, b) THEN b ELSE a

\* a / b of two floats: ZeroDivisionError when b is zero
truediv(a, b) ==
    IF b.n = 0
    THEN [raised |-> "ZeroDivisionError", value |-> Q(0, 1)]
    ELSE [raised |-> "",
          value |-> IF b.n > 0 THEN Q(a.n * b.d, a.d * b.n)
                               ELSE Q(-(a.n * b.d), -(a.d * b.n))]

\* a ** k for a whole exponent k >= 0
RECURSIVE QPow(_, _)
QPow(a, k) == IF k = 0 THEN Q(1, 1) ELSE QMul(a, QPow(a, k - 1))

\* sum(f) of a sequence of fractions
RECURSIVE QSum(_)
QSum(f) == IF f = <<>> THEN Q(0, 1) ELSE QAdd(Head(f), QSum(Tail(f)))

\* the first k decimals of n/d by long division, and what is left over
RECURSIVE decimals(_, _, _)
decimals(n, d, k) ==
    IF k = 0 THEN [value |-> n \div d, rem |-> n % d]
    ELSE LET p == decimals(n, d, k - 1)
         IN  [value |-> p.value * 10 + (p.rem * 10) \div d,
              rem |-> (p.rem * 10) % d]

\* round(x, k) of a float x >= 0, in units of 10^-k (a half goes to the even
\* neighbour)
round_digits(x, k) ==
    LET p == decimals(x.n, x.d, k)
    IN  IF 2 * p.rem > x.d \/ (2 * p.rem = x.d /\ p.value % 2 = 1)
        THEN p.value + 1 ELSE p.value

-----------------------------------------------------------------------------
(* RatingCalculator: src/rating.py *)

\* uptime_alpha, ndigits and invalid_shares_penalty_factor of
\* RatingCalculator.__init__
uptime_alpha == 2
ndigits == 8
invalid_shares_penalty_factor == Q(1, 2)
\* window.total_seconds() (3600 in the source), scaled down
window_seconds == 4
\* max_difficulty (16384.0 in the source), scaled down
max_difficulty == 2

\* MinerMetrics with the fields the rating reads and worker_name
MinerMetrics(uptime, valid_shares, invalid_shares, difficulty, worker_name) ==
    [uptime |-> uptime, valid_shares |-> valid_shares,
     invalid_shares |-> invalid_shares, difficulty |-> difficulty,
     worker_name |-> worker_name]

\* MinerMetrics.default_instance: every field at its default
default_instance(worker_name) == MinerMetrics(0, 0, 0, 0, worker_name)

\* math.exp(-x) for x >= 0, replaced by the fraction 1 / (1 + x + x^2/2):
\* like it 1 at 0, positive, below 1 and decreasing for x > 0
exp_neg(x) ==
    truediv(Q(1, 1),
            QAdd(Q(1, 1), QAdd(x, QMul(Q(1, 2), QMul(x, x))))).value

penalty_exponential(difficulty) ==
    IF difficulty > max_difficulty
    THEN exp_neg(Q(difficulty - max_difficulty, max_difficulty))
    ELSE Q(1, 1)

compute_effective_work(metrics) ==
    QSum([i \in 1..Len(metrics) |->
            QMul(Q(metrics[i].valid_shares
                     * (IF metrics[i].difficulty < max_difficulty
                        THEN metrics[i].difficulty ELSE max_difficulty), 1),
                 penalty_exponential(metrics[i].difficulty))])

\* compute_fractional_uptime without its test for a start in the future
compute_fractional_uptime_no_future(start_timestamp, time) ==
    LET window_start == time - window_seconds
    IN  IF start_timestamp < window_start THEN Q(1, 1)
        ELSE Q(time - start_timestamp, window_seconds)

\* compute_fractional_uptime at time.time() = time
compute_fractional_uptime(start_timestamp, time) ==
    LET window_start == time - window_seconds
    IN  IF start_timestamp > time THEN Q(0, 1)
        ELSE IF start_timestamp < window_start THEN Q(1, 1)
        ELSE Q(time - start_timestamp, window_seconds)

compute_avg_uptime(metrics, time) ==
    IF metrics = <<>> THEN [raised |-> "", value |-> Q(0, 1)]
    ELSE LET uptimes == [i \in 1..Len(metrics) |->
                            QMax(Q(0, 1), QMin(Q(1, 1),
                                compute_fractional_uptime(metrics[i].uptime, time)))]
         IN  truediv(QSum(uptimes), Q(Len(uptimes), 1))

RECURSIVE sum_of(_, _)
sum_of(metrics, field) ==
    IF metrics = <<>> THEN 0
    ELSE Head(metrics)[field] + sum_of(Tail(metrics), field)

\* compute_share_quality returning the share of invalid shares
compute_share_quality_inverted(metrics) ==
    LET total_valid_shares == sum_of(metrics, "valid_shares")
        total_invalid_shares == sum_of(metrics, "invalid_shares")
        total_shares == total_valid_shares + total_invalid_shares
    IN  IF total_shares = 0 THEN [raised |-> "", value |-> Q(1, 1)]
        ELSE truediv(Q(total_invalid_shares, 1), Q(total_shares, 1))

compute_share_quality(metrics) ==
    LET total_valid_shares == sum_of(metrics, "valid_shares")
        total_invalid_shares == sum_of(metrics, "invalid_shares")
        total_shares == total_valid_shares + total_invalid_shares
    IN  IF total_shares = 0 THEN [raised |-> "", value |-> Q(1, 1)]
        ELSE truediv(Q(total_valid_shares, 1), Q(total_shares, 1))

\* max(work.values(), default=1.0)
max_work_of(work) ==
    IF DOMAIN work = {} THEN Q(1, 1)
    ELSE CHOOSE m \in {work[h] : h \in DOMAIN work} :
            \A h \in DOMAIN work : QLe(work[h], m)

\* rate_one dividing by max_work without testing it against 0
rate_one_unguarded(ms, work, max_work, time) ==
    LET norm_score == truediv(work, max_work)
        avg_uptime == compute_avg_uptime(ms, time)
        share_quality == compute_share_quality(ms)
        penalized_by_uptime ==
            QMul(norm_score.value, QPow(avg_uptime.value, uptime_alpha))
        invalid_shares_multiplier ==
            QSub(Q(1, 1), QMul(QSub(Q(1, 1), share_quality.value),
                               invalid_shares_penalty_factor))
        final_score_before_clamping ==
            QMul(penalized_by_uptime, invalid_shares_multiplier)
    IN  [raised |-> IF norm_score.raised # "" THEN norm_score.raised
                    ELSE IF avg_uptime.raised # "" THEN avg_uptime.raised
                    ELSE share_quality.raised,
         score |-> round_digits(QMax(Q(0, 1),
                                     QMin(Q(1, 1), final_score_before_clamping)),
                                ndigits)]

\* rate_one multiplying by avg_uptime instead of avg_uptime ** uptime_alpha
rate_one_linear_uptime(ms, work, max_work, time) ==
    LET norm_score == IF max_work.n = 0 THEN [raised |-> "", value |-> Q(0, 1)]
                      ELSE truediv(work, max_work)
        avg_uptime == compute_avg_uptime(ms, time)
        share_quality == compute_share_quality(ms)
        penalized_by_uptime == QMul(norm_score.value, avg_uptime.value)
        invalid_shares_multiplier ==
            QSub(Q(1, 1), QMul(QSub(Q(1, 1), share_quality.value),
                               invalid_shares_penalty_factor))
        final_score_before_clamping ==
            QMul(penalized_by_uptime, invalid_shares_multiplier)
    IN  [raised |-> IF norm_score.raised # "" THEN norm_score.raised
                    ELSE IF avg_uptime.raised # "" THEN avg_uptime.raised
                    ELSE share_quality.raised,
         score |-> round_digits(QMax(Q(0, 1),
                                     QMin(Q(1, 1), final_score_before_clamping)),
                                ndigits)]

\* one pass of the loop of rate_all for a hotkey: the exception raised, if
\* any, and the score in units of 10^-ndigits
rate_one(ms, work, max_work, time) ==
    LET norm_score == IF max_work.n = 0 THEN [raised |-> "", value |-> Q(0, 1)]
                      ELSE truediv(work, max_work)
        avg_uptime == compute_avg_uptime(ms, time)
        share_quality == compute_share_quality(ms)
        penalized_by_uptime ==
            QMul(norm_score.value, QPow(avg_uptime.value, uptime_alpha))
        invalid_shares_multiplier ==
            QSub(Q(1, 1), QMul(QSub(Q(1, 1), share_quality.value),
                               invalid_shares_penalty_factor))
        final_score_before_clamping ==
            QMul(penalized_by_uptime, invalid_shares_multiplier)
    IN  [raised |-> IF norm_score.raised # "" THEN norm_score.raised
                    ELSE IF avg_uptime.raised # "" THEN avg_uptime.raised
                    ELSE share_quality.raised,
         score |-> round_digits(QMax(Q(0, 1),
                                     QMin(Q(1, 1), final_score_before_clamping)),
                                ndigits)]

\* rate_all at time.time() = time: the exception that leaves it, if any, and
\* the dict hotkey -> score
rate_all(metrics, time) ==
    LET work == [h \in DOMAIN metrics |-> compute_effective_work(metrics[h])]
        max_work == max_work_of(work)
        one == [h \in DOMAIN metrics |->
                    rate_one(metrics[h], work[h], max_work, time)]
    IN  IF \E h \in DOMAIN metrics : one[h].raised # ""
        THEN [raised |-> (CHOOSE r \in {one[h].raised : h \in DOMAIN metrics} :
                            r # ""),
              scores |-> <<>>]
        ELSE [raised |-> "", scores |-> [h \in DOMAIN metrics |-> one[h].score]]

-----------------------------------------------------------------------------
(* Validator: src/validator.py *)

\* config.kaspa_pool_owner_wallet
kaspa_pool_owner_wallet == "kaspa:pool"

MinerKey(wallet, worker) == [wallet |-> wallet, worker |-> worker]

\* metrics.get(key, MinerMetrics.default_instance(worker))
metrics_get(metrics, worker) ==
    LET key == MinerKey(kaspa_pool_owner_wallet, worker)
    IN  IF key \in DOMAIN metrics THEN metrics[key]
        ELSE default_instance(worker)

\* the orders in which a dict can hold the keys S
items_orders(S) ==
    {f \in [1..Cardinality(S) -> S] :
        \A i, j \in 1..Cardinality(S) : f[i] = f[j] => i = j}

\* get_hotkey_metrics_map appending only the workers that have telemetry
get_hotkey_metrics_map_matched(metrics, mapping, items) ==
    LET matched == SelectSeq(items,
                      LAMBDA w : MinerKey(kaspa_pool_owner_wallet, w)
                                    \in DOMAIN metrics)
    IN  [h \in {mapping[matched[i]] : i \in 1..Len(matched)} |->
            LET mine == SelectSeq(matched, LAMBDA w : mapping[w] = h)
            IN  [i \in 1..Len(mine) |-> metrics_get(metrics, mine[i])]]

\* get_hotkey_metrics_map for the fetched metrics and the mapping returned
\* by the manager, mapping.items() coming in the order `items`
get_hotkey_metrics_map(metrics, mapping, items) ==
    [h \in {mapping[w] : w \in DOMAIN mapping} |->
        LET mine == SelectSeq(items, LAMBDA w : mapping[w] = h)
        IN  [i \in 1..Len(mine) |-> metrics_get(metrics, mine[i])]]

-----------------------------------------------------------------------------
(* Naming policy *)

\* `hotkey not in worker` is false: the hotkey occurs in the worker name
Contains(worker, hotkey) ==
    \E i \in 1..Len(worker) :
        /\ i + Len(hotkey) - 1 <= Len(worker)
        /\ SubSeq(worker, i, i + Len(hotkey) - 1) = hotkey

-----------------------------------------------------------------------------
(* Inputs *)

\* the records a peer can send
Records ==
    {[worker |-> c[1], hotkey |-> c[2], registration_time |-> c[3],
      registration_time_int |-> int_micros(c[3]),
      signature |-> Signature(c[2], c[1], c[3])] :
        c \in Workers \X Hotkeys \X Times}

\* responses of at most n records, no record twice
RECURSIVE Batches(_)
Batches(n) ==
    IF n = 0 THEN {<<>>}
    ELSE LET shorter == Batches(n - 1)
         IN  shorter \cup
             {Append(b, r) : <<b, r>> \in
                 {<<b, r>> \in shorter \X Records :
                     Len(b) = n - 1 /\ \A i \in 1..Len(b) : b[i] # r}}

\* possible values of filtered_endpoints: the peers found, each once
EndpointLists ==
    {<<p>> : p \in Peers} \cup {pq \in Peers \X Peers : pq[1] # pq[2]}

\* the non-empty responses of a peer whose table is not modelled
AnyResponses == Batches(MaxBatch) \ {<<>>}

\* records of a response body that is JSON but not what GET /hotkey_workers
\* of this service sends: the key registration_time is missing
MalformedRecords ==
    {[worker |-> w, hotkey |-> Owner(w), signature |-> Signature(Owner(w), w, 2)] :
        w \in Workers}

\* responses with a malformed record, alone, before or after a proper one
MalformedResponses ==
    {<<m>> : m \in MalformedRecords}
        \cup {<<m, r>> : <<m, r>> \in MalformedRecords \X Records}
        \cup {<<r, m>> : <<r, m>> \in Records \X MalformedRecords}

\* keypair.ss58_address of the local validator
Self == <<1>>

\* nodes of the subnet on the ledger
Nodes == {[node_id |-> 5, hotkey |-> <<1>>], [node_id |-> 3, hotkey |-> <<2>>]}

\* what get_nodes_for_netuid_cached can return: the registered nodes in the
\* ledger's order, the local validator among them or not
NodeLists ==
    {<<>>} \cup {<<n>> : n \in Nodes}
           \cup {<<n, m>> : <<n, m>> \in {nm \in Nodes \X Nodes : nm[1] # nm[2]}}

\* what validator.compute_ratings() can return: a rating for some hotkeys
RatingMaps == UNION {[S -> 0..MaxRating] : S \in SUBSET Hotkeys}

\* what validator.compute_ratings() can do: return ratings, or pass on the
\* exception of a failed request to the pool telemetry (MetricsClient
\* raises for a refused connection or a status >= 400)
Computed ==
    {[raised |-> "", ratings |-> r] : r \in RatingMaps}
        \cup {[raised |-> "ClientError", ratings |-> <<>>]}

Outcome(op, result, added, skipped, failed) ==
    [op |-> op, result |-> result, added |-> added, skipped |-> skipped,
     failed |-> failed]

-----------------------------------------------------------------------------
\* the tasks of the event loop that read the mapping cache
Readers == {"r1", "r2"}

\* a task that has not called get_mapping
NotCalled == [pc |-> "idle", loaded |-> FALSE, time |-> 0, among |-> {}]

\* no request handled yet
NoResponse == [op |-> "", request |-> <<>>, env |-> "", status |-> 0, detail |-> ""]

\* the state after construction, the process starting at time `start`
InitAt(start) ==
    /\ reg = {}
    /\ offsets = {}
    /\ now = start
    /\ peerReg = [p \in Peers |-> {}]
    /\ pc = "idle"
    /\ queue = <<>>
    /\ last = Outcome("", "", 0, 0, 0)
    /\ hist = [p \in Peers |-> 0]
    /\ dynamic_config = {}
    /\ pub = Ran("", <<>>, <<>>, 0)
    /\ pub_args = [computed |-> [raised |-> "", ratings |-> <<>>],
                   nodes |-> <<>>, sent |-> FALSE]
    /\ manager = MappingManager
    /\ read = Got(<<>>, FALSE, 0)
    /\ changed_at = 0
    /\ fetched = [raised |-> "", metrics |-> <<>>]
    /\ hotkey_metrics = <<>>
    /\ scored = [raised |-> "", scores |-> <<>>]
    /\ response = NoResponse
    /\ readers = [r \in Readers |-> NotCalled]

Init == InitAt(0)

\* a registration reaches DatabaseService.add_mapping
Bind(hotkey, worker, signature, t) ==
    LET res == add_mapping(reg, hotkey, worker, signature, t)
    IN  /\ Cardinality(res.reg) <= MaxRows
        /\ reg' = res.reg
        /\ last' = Outcome("add_mapping", res.result, 0, 0, 0)
        /\ changed_at' = committed(reg, res.reg, now, changed_at)
        /\ UNCHANGED <<offsets, now, peerReg, pc, queue, hist>>
        /\ UNCHANGED <<pubvars, cachevars, ratevars, apivars, readers>>

\* an unbind request reaches DatabaseService.mark_worker_unbound
Unbind(hotkey, worker, unbind_signature) ==
    LET res == mark_worker_unbound(reg, hotkey, worker, unbind_signature)
    IN  /\ reg' = res.reg
        /\ last' = Outcome("mark_worker_unbound", res.result, 0, 0, 0)
        /\ changed_at' = committed(reg, res.reg, now, changed_at)
        /\ UNCHANGED <<offsets, now, peerReg, pc, queue, hist>>
        /\ UNCHANGED <<pubvars, cachevars, ratevars, apivars, readers>>

\* the task starts and finds a non-empty filtered_endpoints (an empty one
\* returns at once and changes nothing)
SyncStart(endpoints) ==
    /\ pc = "idle"
    /\ pc' = "sync"
    /\ queue' = endpoints
    /\ UNCHANGED <<reg, offsets, now, peerReg, last, hist>>
    /\ UNCHANGED <<pubvars, cachevars, changed_at, ratevars, apivars, readers>>

\* the iteration for the next endpoint, the peer answering `workers`
SyncIteration(workers) ==
    LET hotkey == Head(queue)
        res == sync_validator(reg, offsets, hotkey, workers, now)
    IN  /\ Cardinality(res.reg) <= MaxRows
        /\ reg' = res.reg
        /\ offsets' = res.offsets
        /\ last' = Outcome("sync", IF res.raised = "" THEN "done" ELSE res.raised,
                            res.added, res.skipped, res.failed)
        \* nothing in the task catches an exception of the loop body: the task
        \* ends with it and the endpoints left are not visited
        /\ queue' = IF res.raised = "" THEN Tail(queue) ELSE <<>>
        /\ pc' = IF res.raised = "" /\ Tail(queue) # <<>> THEN "sync" ELSE "idle"
        /\ changed_at' = committed(reg, res.reg, now, changed_at)

\* the peer is a validator whose table is not modelled: any response
SyncAny(workers) ==
    /\ pc = "sync"
    /\ SyncIteration(workers)
    /\ UNCHANGED <<now, peerReg, hist>>
    /\ UNCHANGED <<pubvars, cachevars, ratevars, apivars, readers>>

\* the request fails (timeout, connection error, status other than 200):
\* fetch_hotkey_workers_from_validator returns []
SyncFail ==
    /\ pc = "sync"
    /\ SyncIteration(<<>>)
    /\ UNCHANGED <<now, peerReg, hist>>
    /\ UNCHANGED <<pubvars, cachevars, ratevars, apivars, readers>>

\* the peer is a validator running this service: it answers from its table
SyncPeer ==
    /\ pc = "sync"
    /\ \E workers \in fetch_hotkey_workers_from_validator(
                           peerReg[Head(queue)],
                           get_validator_sync_offset(offsets, Head(queue))) :
          SyncIteration(workers)
    /\ hist' = [hist EXCEPT ![Head(queue)] = IF @ < 2 THEN @ + 1 ELSE @]
    /\ UNCHANGED <<now, peerReg>>
    /\ UNCHANGED <<pubvars, cachevars, ratevars, apivars, readers>>

\* a registration is accepted by the peer p (its own add_mapping)
PeerRegister(p, hotkey, worker, t) ==
    LET res == add_mapping(peerReg[p], hotkey, worker, Signature(hotkey, worker, t), t)
    IN  /\ res.result = "ok"
        /\ Cardinality(res.reg) <= MaxPeerRows
        /\ peerReg' = [peerReg EXCEPT ![p] = res.reg]
        /\ hist' = [hist EXCEPT ![p] = 0]
        /\ UNCHANGED <<reg, offsets, now, pc, queue, last>>
        /\ UNCHANGED <<pubvars, cachevars, changed_at, ratevars, apivars, readers>>

-----------------------------------------------------------------------------
(* Spec: the registry under requests and sync passes over a peer that may   *)
(* answer anything                                                          *)

Next ==
    \/ \E h \in Hotkeys, w \in Workers, t \in Times :
          Bind(h, w, Signature(h, w, t), t)
    \/ \E h \in Hotkeys, w \in Workers, u \in UnbindSigs : Unbind(h, w, u)
    \/ SyncStart(<<"v1">>)
    \/ \E b \in AnyResponses : SyncAny(b)
    \/ SyncFail

Spec == Init /\ [][Next]_vars

(* SyncSpec: sync passes over a peer that serves its own table *)

NextSync ==
    \/ \E h \in Hotkeys, w \in Workers, t \in PeerTimes : PeerRegister("v1", h, w, t)
    \/ SyncStart(<<"v1">>)
    \/ SyncPeer
    \/ SyncFail

SyncSpec == Init /\ [][NextSync]_vars

\* passes keep being started, and the peer keeps answering
FairSyncSpec ==
    /\ Init /\ [][NextSync]_vars
    /\ WF_vars(SyncStart(<<"v1">>))
    /\ SF_vars(SyncPeer)

(* PubSpec: the weight publisher, run at any time and any number of times    *)

\* time.time() advances
Tick ==
    /\ now < MaxClock
    /\ now' = now + 1
    /\ UNCHANGED <<reg, offsets, peerReg, pc, queue, last, hist, pubvars,
                   cachevars, changed_at, ratevars, apivars, readers>>

\* one run of set_weights_task
Publish(computed, nodes, sent) ==
    LET res == set_weights_task(dynamic_config, now, computed, nodes, Self, sent)
    IN  /\ dynamic_config' = res.table
        /\ pub' = res.ran
        /\ pub_args' = [computed |-> computed, nodes |-> nodes, sent |-> sent]
        /\ UNCHANGED <<reg, offsets, now, peerReg, pc, queue, last, hist,
                       cachevars, changed_at, ratevars, apivars, readers>>

NextPub ==
    \/ Tick
    \/ \E computed \in Computed, nodes \in NodeLists, sent \in BOOLEAN :
          Publish(computed, nodes, sent)

PubSpec == Init /\ [][NextPub]_vars

(* CacheSpec: reads of the mapping cache between binds and unbinds           *)

\* a MappingManager.get_mapping call
Read ==
    LET res == get_mapping(manager, reg, now)
    IN  /\ manager' = res.mgr
        /\ read' = res.got
        /\ UNCHANGED <<reg, offsets, now, peerReg, pc, queue, last, hist,
                       pubvars, changed_at, ratevars, apivars, readers>>

NextCache ==
    \/ Tick
    \/ Read
    \/ \E h \in Hotkeys, w \in Workers : Bind(h, w, Signature(h, w, 2), 2)
    \/ \E h \in Hotkeys, w \in Workers : Unbind(h, w, "ab")

\* the process starts more than cache_ttl seconds after the epoch
CacheSpec == InitAt(cache_ttl + 1) /\ [][NextCache]_vars

(* LoopSpec: the two periodic loops, each `while True: await task(); await   *)
(* asyncio.sleep(interval)`: an exception that leaves a task ends its loop   *)

sync_loop_running == ~(last.op = "sync" /\ last.result # "done")

publish_loop_running == pub.result \in {"", "returned"}

sync_hotkey_workers_loop ==
    /\ sync_loop_running
    /\ SyncStart(<<"v1">>)

set_weights_loop(computed, nodes, sent) ==
    /\ publish_loop_running
    /\ Publish(computed, nodes, sent)

\* what the collaborators give the loops in this specification
LoopComputed ==
    {[raised |-> "", ratings |-> [h \in {Self} |-> 1]],
     [raised |-> "ClientError", ratings |-> <<>>]}

LoopResponses ==
    {<<r>> : r \in Records} \cup {<<m>> : m \in MalformedRecords}

NextLoop ==
    \/ sync_hotkey_workers_loop
    \/ \E b \in LoopResponses : SyncAny(b)
    \/ SyncFail
    \/ \E computed \in LoopComputed, n \in Nodes, sent \in BOOLEAN :
          set_weights_loop(computed, <<n>>, sent)

\* the loops start with the process, more than set_weights_interval seconds
\* after the epoch; the runs of one interval
LoopSpec == InitAt(set_weights_interval) /\ [][NextLoop]_vars

(* MultiSpec: sync passes over one or two confirmed peers that answer with   *)
(* any status and any JSON body                                             *)

NextMulti ==
    \/ \E endpoints \in EndpointLists : SyncStart(endpoints)
    \/ \E b \in AnyResponses \cup MalformedResponses : SyncAny(b)
    \/ SyncFail

MultiSpec == Init /\ [][NextMulti]_vars

(* RateSpec: calls of rate_all on telemetry that grows from one call to the  *)
(* next, by a hotkey, by a worker, or by a worker's valid shares             *)

\* valid_shares range over 0..MaxShares, invalid_shares over 0..MaxInvalid
MaxShares == 2
MaxInvalid == 1
\* at most MaxMetrics workers for the first hotkey, one for the others
MaxMetrics == 2

\* difficulties below, at and above max_difficulty
Difficulties == {1, max_difficulty, 2 * max_difficulty}

\* start timestamps: in the future, now, inside the window, at its start and
\* before it
StartTimes(time) ==
    {time + 1, time, time - window_seconds \div 2, time - window_seconds,
     time - window_seconds - 1}

\* the telemetry of one worker: every start time with one valid share, and
\* every count of shares and difficulty with full uptime
MetricsSamples(time) ==
    {MinerMetrics(u, 1, 0, 1, <<7>>) : u \in StartTimes(time)}
        \cup {MinerMetrics(time - window_seconds, v, i, d, <<7>>) :
                v \in 0..MaxShares, i \in 0..MaxInvalid, d \in Difficulties}

\* a dict with one more key, or one more value for a key
dict_set(dict, key, value) ==
    [k \in DOMAIN dict \cup {key} |-> IF k = key THEN value ELSE dict[k]]

\* the inputs that extend `metrics` by a hotkey without workers or by the
\* telemetry of one more worker
Extended(metrics, time) ==
    {dict_set(metrics, h, <<>>) : h \in Hotkeys \ DOMAIN metrics}
        \cup {dict_set(metrics, h, Append(metrics[h], m)) :
                h \in {k \in DOMAIN metrics :
                         Len(metrics[k]) < (IF k = Self THEN MaxMetrics ELSE 1)},
                m \in MetricsSamples(time)}

\* the inputs that differ from `metrics` only in that one worker of hotkey h
\* has a larger valid_shares
MoreValidShares(metrics, h) ==
    {dict_set(metrics, h, [metrics[h] EXCEPT ![c[1]].valid_shares = c[2]]) :
        c \in {c \in (1..Len(metrics[h])) \X (0..MaxShares) :
                 c[2] > metrics[h][c[1]].valid_shares}}

\* rating_calculator.rate_all(metrics) is called
Rate(metrics) ==
    /\ hotkey_metrics' = metrics
    /\ scored' = rate_all(metrics, now)
    /\ UNCHANGED <<reg, offsets, now, peerReg, pc, queue, last, hist, pubvars,
                   cachevars, changed_at, fetched, apivars, readers>>

NextRate ==
    \/ \E metrics \in Extended(hotkey_metrics, now) : Rate(metrics)
    \/ \E h \in DOMAIN hotkey_metrics :
          \E metrics \in MoreValidShares(hotkey_metrics, h) : Rate(metrics)

\* the first call is made more than a window after the epoch
RateSpec == InitAt(window_seconds + 1) /\ [][NextRate]_vars

(* ComputeSpec: Validator.compute_ratings between binds and unbinds          *)

\* the telemetry of a worker that has some: up since the epoch, one valid
\* share of difficulty 1
Reported(worker) == MinerMetrics(0, 1, 0, 1, worker)

\* what MetricsClient.fetch_metrics can do: return the metrics of some
\* workers of the pool wallet, or pass on the error of a request
Fetches ==
    {[raised |-> "",
      metrics |-> [k \in {MinerKey(kaspa_pool_owner_wallet, w) : w \in ws} |->
                      Reported(k.worker)]] : ws \in SUBSET Workers}
        \cup {[raised |-> "ClientError", metrics |-> <<>>]}

\* one call of Validator.compute_ratings
compute_ratings(fetch) ==
    IF fetch.raised # ""
    THEN /\ fetched' = fetch
         /\ scored' = [raised |-> fetch.raised, scores |-> <<>>]
         /\ UNCHANGED <<hotkey_metrics, cachevars>>
    ELSE LET res == get_mapping(manager, reg, now)
         IN  /\ fetched' = fetch
             /\ manager' = res.mgr
             /\ read' = res.got
             /\ \E items \in items_orders(DOMAIN res.got.value) :
                   hotkey_metrics'
                     = get_hotkey_metrics_map(fetch.metrics, res.got.value, items)
             /\ scored' = rate_all(hotkey_metrics', now)

ComputeRatings(fetch) ==
    /\ compute_ratings(fetch)
    /\ UNCHANGED <<reg, offsets, now, peerReg, pc, queue, last, hist, pubvars,
                   changed_at, apivars, readers>>

NextCompute ==
    \/ Tick
    \/ \E fetch \in Fetches : ComputeRatings(fetch)
    \/ \E h \in Hotkeys, w \in Workers : Bind(h, w, Signature(h, w, 2), 2)
    \/ \E h \in Hotkeys, w \in Workers : Unbind(h, w, "ab")

\* the process starts a window after the epoch
ComputeSpec == InitAt(window_seconds) /\ [][NextCompute]_vars

-----------------------------------------------------------------------------
(* HTTP surface: handlers of src/main.py over the validation of             *)
(* src/interface.py                                                         *)

\* the float of a whole number of seconds, in half-microseconds
half_micros(seconds) == seconds * 2000000

\* str(e) of the ValueError a rejected store operation raises
reason_of(result) ==
    CASE result = "Conflict" -> "Worker already registered"
      [] result = "QuotaExceeded" ->
            "Maximum number of workers for this hotkey reached"
      [] result = "NotFound" -> "Worker not found for this hotkey"
      [] result = "AlreadyUnbound" -> "Worker already unbound"
      [] OTHER -> result

NamingPolicyViolation ==
    "Worker name must contain the hotkey for security validation"

\* what a call leaves behind: the table, and the exception that left it
Returned(table) == [reg |-> table, raised |-> "", message |-> ""]
Raised(table, kind, message) == [reg |-> table, raised |-> kind, message |-> message]

\* abs(time.time() - registration_time) <= registration_time_tolerance
within_tolerance(time, registration_time) ==
    /\ registration_time - half_micros(time) <= half_micros(registration_time_tolerance)
    /\ half_micros(time) - registration_time <= half_micros(registration_time_tolerance)

\* the signature of an unbind claim verifies when the holder of the claimed
\* hotkey produced it: here "ab" stands for the hex signature of the key
\* that runs the worker, any other string for one that no key produced
verify_unbind_signature(hotkey, worker, unbind_signature) ==
    unbind_signature = "ab" /\ Owner(worker) = hotkey

\* validation of a registration, then DatabaseService.add_mapping; `env` is
\* what the collaborators answer during the call: "ok", or the one that fails
add_hotkey_worker_mapping(table, time, hotkey, worker, signature, registration_time, env) ==
    IF ~within_tolerance(time, registration_time)
    THEN Raised(table, "ValueError", "StaleOrFutureTimestamp")
    ELSE IF ~Contains(worker, hotkey)
    THEN Raised(table, "ValueError", NamingPolicyViolation)
    ELSE IF env = "ClientError"
    THEN Raised(table, "ClientError", "pool telemetry request failed")
    ELSE IF env = "UnknownWorker"
    THEN Raised(table, "ValueError", "UnknownWorker")
    ELSE IF ~verify_signature(hotkey, reg_json(hotkey, worker, registration_time),
                              signature)
    THEN Raised(table, "ValueError", "InvalidSignature")
    ELSE IF env = "UnregisteredHotkey"
    THEN Raised(table, "ValueError", "UnregisteredHotkey")
    ELSE IF env = "OperationalError"
    THEN Raised(table, "OperationalError", "database is locked")
    ELSE LET res == add_mapping(table, hotkey, worker, signature, registration_time)
         IN  IF res.result = "ok"
             THEN Returned(res.reg)
             ELSE IF res.result = "IntegrityError"
             THEN Raised(res.reg, "IntegrityError", "UNIQUE constraint failed")
             ELSE Raised(res.reg, "ValueError", reason_of(res.result))

\* the same signature and registration checks, then
\* DatabaseService.mark_worker_unbound
mark_hotkey_worker_unbound(table, hotkey, worker, unbind_signature, env) ==
    IF ~verify_unbind_signature(hotkey, worker, unbind_signature)
    THEN Raised(table, "ValueError", "InvalidSignature")
    ELSE IF env = "UnregisteredHotkey"
    THEN Raised(table, "ValueError", "UnregisteredHotkey")
    ELSE IF env = "OperationalError"
    THEN Raised(table, "OperationalError", "database is locked")
    ELSE LET res == mark_worker_unbound(table, hotkey, worker, unbind_signature)
         IN  IF res.result = "ok"
             THEN Returned(res.reg)
             ELSE Raised(res.reg, "ValueError", reason_of(res.result))

\* what a handler answers to a call that returned or raised
answer(res, message) ==
    IF res.raised = ""
    THEN [reg |-> res.reg, status |-> 200, detail |-> message]
    ELSE IF res.raised = "ValueError"
    THEN [reg |-> res.reg, status |-> 400, detail |-> res.message]
    ELSE [reg |-> res.reg, status |-> 500, detail |-> "Internal server error"]

\* the handler with `except Exception` as its only clause
register_worker_bare_except(table, time, worker_data, env) ==
    LET res == add_hotkey_worker_mapping(table, time, worker_data.hotkey,
                    worker_data.worker, worker_data.signature,
                    worker_data.registration_time, env)
    IN  answer([res EXCEPT !.raised = IF @ = "" THEN "" ELSE "Exception"],
               "Worker registered successfully")

\* POST /register_worker
register_worker(table, time, worker_data, env) ==
    answer(add_hotkey_worker_mapping(table, time, worker_data.hotkey,
                worker_data.worker, worker_data.signature,
                worker_data.registration_time, env),
           "Worker registered successfully")

\* POST /unbind_worker
unbind_worker(table, unbind_data, env) ==
    answer(mark_hotkey_worker_unbound(table, unbind_data.hotkey,
                unbind_data.worker, unbind_data.unbind_signature, env),
           "Worker unbound successfully")

-----------------------------------------------------------------------------
(* ApiSpec: registration and unbind requests at one instant of the server    *)
(* clock                                                                     *)

\* worker names with the hotkey <<1>> as the whole name, at the start and in
\* the middle, with the hotkey <<2>> at the end, and with neither
ApiWorkers == {<<1>>, <<1, 2>>, <<7, 1, 7>>, <<7>>}

\* registration times long before the server time, close to it (one of them
\* not a whole number of microseconds) and long after it
ApiTimes(time) ==
    {1, half_micros(time) + 1, half_micros(time + registration_time_tolerance) + 2}

\* a signature the claimed hotkey's holder did not produce
Forged(hotkey, worker, t) == Sign(<<0>>, reg_json(hotkey, worker, t))

WorkerMappings(time) ==
    {[hotkey |-> c[1], worker |-> c[2], registration_time |-> c[3],
      signature |-> c[4]] :
        c \in {d \in Hotkeys \X ApiWorkers \X ApiTimes(time)
                        \X {Sign(k, reg_json(h, w, t)) :
                                k \in Hotkeys \cup {<<0>>}, h \in Hotkeys,
                                w \in ApiWorkers, t \in ApiTimes(time)} :
                  d[4].message = reg_json(d[1], d[2], d[3])
                  /\ d[4].signer \in {Owner(d[2]), <<0>>}}}

UnbindRequests ==
    {[hotkey |-> h, worker |-> w, unbind_signature |-> s] :
        h \in Hotkeys, w \in ApiWorkers, s \in UnbindSigs}

RegisterEnvs == {"ok", "ClientError", "UnknownWorker", "UnregisteredHotkey",
                 "OperationalError"}
UnbindEnvs == {"ok", "UnregisteredHotkey", "OperationalError"}

Answered(op, request, env, ans) ==
    [op |-> op, request |-> request, env |-> env, status |-> ans.status,
     detail |-> ans.detail]

Register(worker_data, env) ==
    LET ans == register_worker(reg, now, worker_data, env)
    IN  /\ Cardinality(ans.reg) <= MaxRows
        /\ reg' = ans.reg
        /\ response' = Answered("register_worker", worker_data, env, ans)
        /\ changed_at' = committed(reg, ans.reg, now, changed_at)
        /\ UNCHANGED <<offsets, now, peerReg, pc, queue, last, hist>>
        /\ UNCHANGED <<pubvars, cachevars, ratevars, readers>>

UnbindRequest(unbind_data, env) ==
    LET ans == unbind_worker(reg, unbind_data, env)
    IN  /\ reg' = ans.reg
        /\ response' = Answered("unbind_worker", unbind_data, env, ans)
        /\ changed_at' = committed(reg, ans.reg, now, changed_at)
        /\ UNCHANGED <<offsets, now, peerReg, pc, queue, last, hist>>
        /\ UNCHANGED <<pubvars, cachevars, ratevars, readers>>

NextApi ==
    \/ \E d \in WorkerMappings(now), env \in RegisterEnvs : Register(d, env)
    \/ \E d \in UnbindRequests, env \in UnbindEnvs : UnbindRequest(d, env)

\* the server clock is past the tolerance, so that a stale time exists
ApiSpec == InitAt(registration_time_tolerance + 2) /\ [][NextApi]_vars

-----------------------------------------------------------------------------
(* OffsetSpec: DatabaseService.update_validator_sync_offset called by any    *)
(* caller with any registration_time                                         *)

UpdateOffset(peer, registration_time) ==
    /\ offsets' = update_validator_sync_offset(offsets, peer, registration_time, now)
    /\ UNCHANGED <<reg, now, peerReg, pc, queue, last, hist, pubvars, cachevars,
                   changed_at, ratevars, apivars, readers>>

NextOffset ==
    \/ \E p \in Peers, t \in 0..MaxPeerTime : UpdateOffset(p, t)
    \/ Tick

OffsetSpec == Init /\ [][NextOffset]_vars

-----------------------------------------------------------------------------
(* ReadersSpec: tasks of one event loop that call MappingManager.get_mapping *)
(* of one manager. The only suspension point of get_mapping is               *)
(* `await self.source.load_mapping()`, and load_mapping of                   *)
(* SqliteMappingSource, the one source get_mapping_source builds, contains   *)
(* no await: the coroutine runs to its return without yielding to the event  *)
(* loop, so a call of get_mapping, once its task is run, is one step.        *)

\* what a task holds when get_mapping has returned to it; `pending` are the
\* tasks that had called get_mapping and were waiting to be run at that time
Returned_to(got, pending) ==
    [pc |-> "returned", loaded |-> got.loaded, time |-> got.time, among |-> pending]

\* a task calls get_mapping: the call is scheduled on the event loop
Call(r) ==
    /\ readers[r].pc # "called"
    /\ readers' = [readers EXCEPT ![r] = [NotCalled EXCEPT !.pc = "called"]]
    /\ UNCHANGED <<reg, offsets, now, peerReg, pc, queue, last, hist, pubvars,
                   cachevars, changed_at, ratevars, apivars>>

\* the event loop runs a scheduled call
Run(r) ==
    LET res == get_mapping(manager, reg, now)
    IN  /\ readers[r].pc = "called"
        /\ manager' = res.mgr
        /\ read' = res.got
        /\ readers' = [readers EXCEPT ![r] =
                Returned_to(res.got, {q \in Readers \ {r} : readers[q].pc = "called"})]
        /\ UNCHANGED <<reg, offsets, now, peerReg, pc, queue, last, hist, pubvars,
                       changed_at, ratevars, apivars>>

NextReaders ==
    \/ Tick
    \/ \E r \in Readers : Call(r)
    \/ \E r \in Readers : Run(r)
    \/ Bind(<<1>>, <<1, 7>>, Signature(<<1>>, <<1, 7>>, 2), 2)

\* the process starts more than cache_ttl seconds after the epoch
ReadersSpec == InitAt(cache_ttl + 1) /\ [][NextReaders]_vars

-----------------------------------------------------------------------------
(* UnbindSyncSpec: sync passes over a peer that serves its own table and     *)
(* accepts unbind requests as well as registrations                          *)

\* an unbind request is accepted by the peer p (its own mark_worker_unbound)
PeerUnbind(p, hotkey, worker) ==
    LET res == mark_worker_unbound(peerReg[p], hotkey, worker, "ab")
    IN  /\ res.result = "ok"
        /\ peerReg' = [peerReg EXCEPT ![p] = res.reg]
        /\ hist' = [hist EXCEPT ![p] = 0]
        /\ UNCHANGED <<reg, offsets, now, pc, queue, last>>
        /\ UNCHANGED <<pubvars, cachevars, changed_at, ratevars, apivars, readers>>

NextUnbindSync ==
    \/ \E h \in Hotkeys, w \in Workers, t \in PeerTimes : PeerRegister("v1", h, w, t)
    \/ \E h \in Hotkeys, w \in Workers : PeerUnbind("v1", h, w)
    \/ SyncStart(<<"v1">>)
    \/ SyncPeer
    \/ SyncFail

UnbindSyncSpec == Init /\ [][NextUnbindSync]_vars

-----------------------------------------------------------------------------
(* Properties *)

HasBinding(table, worker) == \E r \in table : r.worker = worker

UniqueWorkers(table) == \A r1, r2 \in table : r1.worker = r2.worker => r1 = r2

\* a step of the task's loop over filtered_endpoints
SyncStep == pc = "sync" /\ queue' = Tail(queue) /\ last'.op = "sync"

\* C1: the registry holds at most one binding per worker name, and a bind for
\* a worker that has a binding (active or unbound, any hotkey, any signature)
\* fails with Conflict and leaves the registry unchanged
C1_OneBindingPerWorker ==
    /\ UniqueWorkers(reg)
    /\ \A h \in Hotkeys, w \in Workers, t \in Times, k \in Hotkeys :
          HasBinding(reg, w) =>
              add_mapping(reg, h, w, Sign(k, reg_json(h, w, t)), t)
                  = [reg |-> reg, result |-> "Conflict"]

\* a bind was refused with Conflict while every binding held is an unbound one
C1_Witness ==
    /\ last = Outcome("add_mapping", "Conflict", 0, 0, 0)
    /\ reg # {}
    /\ \A r \in reg : r.unbind_signature # None

\* C2: no hotkey has more than max_workers bindings with unbind_signature
\* NULL, after requests as after the iterations of a sync pass, and a bind of
\* a fresh worker for a hotkey at the quota fails with QuotaExceeded and
\* leaves the registry unchanged
C2_QuotaPerHotkey ==
    /\ \A h \in Hotkeys : worker_count(reg, h) <= max_workers
    /\ \A h \in Hotkeys, w \in Workers, t \in Times :
          (~HasBinding(reg, w) /\ worker_count(reg, h) >= max_workers) =>
              add_mapping(reg, h, w, Signature(h, w, t), t)
                  = [reg |-> reg, result |-> "QuotaExceeded"]
    /\ pc = "sync" =>
          \A b \in AnyResponses : \A h \in Hotkeys :
              worker_count(sync_validator(reg, offsets, Head(queue), b, now).reg, h)
                  <= max_workers

\* a bind was refused with QuotaExceeded for a hotkey at its quota
C2_Witness ==
    /\ last = Outcome("add_mapping", "QuotaExceeded", 0, 0, 0)
    /\ \E h \in Hotkeys : worker_count(reg, h) = max_workers

\* C3: with a hotkey at max_workers active bindings a bind of a fresh worker
\* fails with QuotaExceeded; after the unbind of one of its active bindings
\* one bind of a fresh worker succeeds and brings it back to the quota, and
\* the bind after that fails with QuotaExceeded
C3_UnbindFreesOneSlot ==
    \A h \in Hotkeys, w \in Workers, t \in Times :
        (worker_count(reg, h) = max_workers /\ ~HasBinding(reg, w)) =>
            /\ add_mapping(reg, h, w, Signature(h, w, t), t).result = "QuotaExceeded"
            /\ \A r \in {x \in reg : x.hotkey = h /\ x.unbind_signature = None} :
               \A u \in UnbindSigs :
                  LET un == mark_worker_unbound(reg, h, r.worker, u)
                      b1 == add_mapping(un.reg, h, w, Signature(h, w, t), t)
                  IN  /\ un.result = "ok"
                      /\ worker_count(un.reg, h) = max_workers - 1
                      /\ b1.result = "ok"
                      /\ worker_count(b1.reg, h) = max_workers
                      /\ \A w2 \in Workers :
                            ~HasBinding(b1.reg, w2) =>
                                add_mapping(b1.reg, h, w2, Signature(h, w2, t), t).result
                                    = "QuotaExceeded"

\* a hotkey that had a binding unbound is at its quota again, and the bind
\* after that was refused with QuotaExceeded
C3_Witness ==
    /\ last = Outcome("add_mapping", "QuotaExceeded", 0, 0, 0)
    /\ \E h \in Hotkeys :
          /\ worker_count(reg, h) = max_workers
          /\ \E r \in reg : r.hotkey = h /\ r.unbind_signature # None
          /\ \E w \in Workers : ~HasBinding(reg, w)

\* C4: an unbind fails with NotFound when no binding exists for the pair
\* (hotkey, worker), and, once the binding's unbind has succeeded, fails with
\* AlreadyUnbound and leaves the stored unbind_signature as it is, whatever
\* unbind signatures are used
C4_UnbindOnce ==
    \A h \in Hotkeys, w \in Workers, u \in UnbindSigs :
        LET res == mark_worker_unbound(reg, h, w, u)
        IN  /\ (~\E r \in reg : r.hotkey = h /\ r.worker = w) =>
                  res = [reg |-> reg, result |-> "NotFound"]
            /\ (\E r \in reg : r.hotkey = h /\ r.worker = w
                                /\ r.unbind_signature # None) =>
                  res = [reg |-> reg, result |-> "AlreadyUnbound"]

\* C5: a binding is never deleted, its worker, hotkey, registration_time,
\* registration_time_int and signature never change, and its
\* unbind_signature, once set, never changes again
C5_BindingsFrozen ==
    [][\A r \in reg : \E r2 \in reg' :
          /\ r2.worker = r.worker
          /\ r2.hotkey = r.hotkey
          /\ r2.registration_time = r.registration_time
          /\ r2.registration_time_int = r.registration_time_int
          /\ r2.signature = r.signature
          /\ (r.unbind_signature # None => r2.unbind_signature = r.unbind_signature)
      ]_vars

\* C6: a registration and a merge of the same worker name never both insert:
\* the insert that follows add_mapping's check never hits the primary key
\* (no storage error), an iteration of the sync pass leaves every binding
\* held before it untouched, keeps one binding per worker and counts each
\* record of a worker bound before it as skipped, and a bind of a bound
\* worker is refused
C6_CheckThenInsert ==
    /\ \A h \in Hotkeys, w \in Workers, t \in Times :
          LET res == add_mapping(reg, h, w, Signature(h, w, t), t)
          IN  /\ res.result \in {"ok", "Conflict", "QuotaExceeded"}
              /\ UniqueWorkers(res.reg)
              /\ HasBinding(reg, w) => res.result # "ok"
    /\ pc = "sync" =>
          \A b \in AnyResponses :
              LET res == sync_validator(reg, offsets, Head(queue), b, now)
              IN  /\ reg \subseteq res.reg
                  /\ UniqueWorkers(res.reg)
                  /\ res.skipped >=
                        Cardinality({i \in 1..Len(b) : HasBinding(reg, b[i].worker)})
                  /\ res.added + res.skipped + res.failed = Len(b)

\* a record fetched for a worker that a request had bound (with a signature
\* no merge accepts) was skipped, and the worker still has its one binding
C6_Witness ==
    /\ last = Outcome("sync", "done", 0, 1, 0)
    /\ Cardinality(reg) = 1
    /\ \A r \in reg :
          ~verify_signature(r.hotkey,
                            reg_json(r.hotkey, r.worker, r.registration_time),
                            r.signature)

\* C7: the offset stored for a peer never decreases, whatever the peer returns
C7_OffsetMonotone ==
    [][\A p \in Peers :
          get_validator_sync_offset(offsets', p)
              >= get_validator_sync_offset(offsets, p)]_vars

\* an iteration merged a record older than the stored offset and the offset
\* stayed where it was
C7_Witness ==
    /\ last = Outcome("sync", "done", 1, 0, 0)
    /\ \E r \in reg :
          /\ reg = {r}
          /\ r.registration_time < get_validator_sync_offset(offsets, "v1")

\* C8: a second pass against a peer whose table did not change since the
\* pass before merges nothing and leaves the peer's offset unchanged
C8_SecondPassIdle ==
    [][(SyncStep /\ hist[Head(queue)] >= 1 /\ hist'[Head(queue)] = 2) =>
          (last'.added = 0 /\ offsets' = offsets)]_vars

\* C9: an iteration that merges no binding leaves the peer's offset row
\* (last_registration_time and last_sync_time) unchanged
C9_NoMergeNoOffsetChange ==
    [][(SyncStep /\ last'.added = 0) => offsets' = offsets]_vars

\* a row of the peer passes the naming and signature checks
Mergeable(r) ==
    /\ Contains(r.worker, r.hotkey)
    /\ verify_signature(r.hotkey, reg_json(r.hotkey, r.worker, r.registration_time),
                        r.signature)

\* C10: with passes kept running against a reachable peer, from some point on
\* every binding of the peer that passes the naming and signature checks is
\* in the local registry
C10_EventuallyConsistent ==
    <>[](\A r \in peerReg["v1"] :
            Mergeable(r) =>
                \E l \in reg : worker_obj(l) = worker_obj(r))

-----------------------------------------------------------------------------
(* Sync orchestrator: per-record checks *)

\* the signature of a row or record verifies against its hotkey over the
\* canonical JSON of {hotkey, registration_time, worker}
Verifies(r) ==
    verify_signature(r.hotkey, reg_json(r.hotkey, r.worker, r.registration_time),
                     r.signature)

\* positions of the records of a response whose signature does not verify
BadSignatures(b) == {i \in 1..Len(b) : ~Verifies(b[i])}

\* C11 as stated: an iteration of a sync pass inserts only bindings whose
\* signature verifies, and counts every fetched record whose signature does
\* not verify as failed
C11_BadSignatureCountedFailed ==
    pc = "sync" =>
        \A b \in AnyResponses :
            LET res == sync_validator(reg, offsets, Head(queue), b, now)
            IN  /\ \A r \in res.reg \ reg : Verifies(r)
                /\ res.failed >= Cardinality(BadSignatures(b))

\* C11 amended: an iteration of a sync pass inserts only bindings whose
\* signature verifies, each of them a fetched record, and counts as failed
\* every fetched record whose signature does not verify and whose worker has
\* no binding when the record is processed (a record of a bound worker is
\* counted as skipped before its signature is looked at)
C11_OnlyVerifiedInserted ==
    pc = "sync" =>
        \A b \in AnyResponses :
            LET res == sync_validator(reg, offsets, Head(queue), b, now)
                unbound == {i \in BadSignatures(b) :
                               /\ ~HasBinding(reg, b[i].worker)
                               /\ \A j \in 1..(i - 1) : b[j].worker # b[i].worker}
            IN  /\ \A r \in res.reg \ reg :
                      /\ Verifies(r)
                      /\ \E i \in 1..Len(b) : worker_obj(r) = b[i]
                      /\ r.unbind_signature = None
                /\ res.failed >= Cardinality(unbound)

\* an iteration counted its one record as failed and inserted nothing, with
\* no binding held (no quota reached): the record's signature did not verify
C11_Witness ==
    /\ last = Outcome("sync", "done", 0, 0, 1)
    /\ reg = {}

\* C12: no binding whose hotkey is not a substring of its worker name is
\* inserted by an iteration of a sync pass, and every fetched record of that
\* kind is counted as failed (the checks of the local registration path run
\* before DatabaseService.add_mapping, in the caller of the request handler)
C12_NamingEnforcedInSync ==
    pc = "sync" =>
        \A b \in AnyResponses :
            LET res == sync_validator(reg, offsets, Head(queue), b, now)
            IN  /\ \A r \in res.reg \ reg : Contains(r.worker, r.hotkey)
                /\ res.failed >=
                      Cardinality({i \in 1..Len(b) :
                                      ~Contains(b[i].worker, b[i].hotkey)})

-----------------------------------------------------------------------------
(* Sync orchestrator: errors of a peer *)

\* C13: whatever a peer answers (nothing, an error status, a body whose
\* records lack a field), the task does not raise and every later peer of
\* the list is still synced in the same pass
C13_PeerErrorAbortsOnlyThatPeer ==
    [][pc = "sync" =>
          /\ last'.result # "KeyError"
          /\ queue' = Tail(queue)
          /\ (Tail(queue) # <<>> => pc' = "sync")]_vars

-----------------------------------------------------------------------------
(* Weight publisher *)

\* a step of set_weights_task (the clock stands still during a step)
PublishStep == now' = now /\ pubvars' # pubvars

\* C14: a run calls the ledger only if now - last_set_weights_time >=
\* set_weights_interval and otherwise changes nothing; last_set_weights_time
\* never decreases, and when it changes it grows by at least the interval
C14_IntervalGate ==
    [][/\ PublishStep =>
            /\ pub'.calls # <<>> =>
                  now - get_last_set_weights_time(dynamic_config)
                      >= set_weights_interval
            /\ now - get_last_set_weights_time(dynamic_config)
                      < set_weights_interval =>
                  (pub'.calls = <<>> /\ dynamic_config' = dynamic_config)
       /\ get_last_set_weights_time(dynamic_config')
              >= get_last_set_weights_time(dynamic_config)
       /\ dynamic_config' # dynamic_config =>
              get_last_set_weights_time(dynamic_config')
                  - get_last_set_weights_time(dynamic_config)
                      >= set_weights_interval
      ]_vars

\* after a publication, a run inside the interval did nothing although it
\* had ratings to publish
C14_Witness ==
    /\ dynamic_config # {}
    /\ pub.result = "returned" /\ pub.calls = <<>>
    /\ pub.time > get_last_set_weights_time(dynamic_config)
    /\ pub.time - get_last_set_weights_time(dynamic_config) < set_weights_interval
    /\ any_rating(pub_args.computed.ratings)
    /\ \E i \in 1..Len(pub_args.nodes) : pub_args.nodes[i].hotkey = Self

\* C15: after a run whose submission succeeded last_set_weights_time is the
\* time of that run; after a run whose submission failed it is unchanged,
\* and a run at any later time still passes the test of the interval
C15_WatermarkFollowsSubmission ==
    /\ [][(PublishStep /\ pub'.calls # <<>>) =>
              IF pub_args'.sent
              THEN get_last_set_weights_time(dynamic_config') = now
              ELSE dynamic_config' = dynamic_config]_vars
    /\ []((pub.calls # <<>> /\ ~pub_args.sent) =>
            /\ now >= pub.time
            /\ \A ratings \in RatingMaps, nodes \in NodeLists :
                  (any_rating(ratings)
                      /\ \E i \in 1..Len(nodes) : nodes[i].hotkey = Self) =>
                      set_weights_task(dynamic_config, now,
                                       [raised |-> "", ratings |-> ratings],
                                       nodes, Self, TRUE).ran.calls # <<>>)

\* a submission failed after an earlier one had succeeded, and the watermark
\* is still the time of the earlier one
C15_Witness ==
    /\ pub.calls # <<>> /\ ~pub_args.sent
    /\ dynamic_config # {}
    /\ get_last_set_weights_time(dynamic_config) < pub.time

\* C16: a run whose computed rating map is empty or holds only zeros makes no ledger
\* call, does not raise, leaves last_set_weights_time unchanged and logs no
\* error (it is a skip, not a failed submission)
C16_EmptyRatingsSkipped ==
    [][(PublishStep /\ pub_args'.computed.raised = ""
                    /\ ~any_rating(pub_args'.computed.ratings)) =>
          /\ pub'.calls = <<>>
          /\ pub'.result = "returned"
          /\ dynamic_config' = dynamic_config
          /\ \A i \in 1..Len(pub'.logs) : pub'.logs[i].level # "error"]_vars

\* C18: a run that submits makes one weights.set_node_weights call, with one
\* id and one weight per node in the order of the ledger's node list (the
\* weight is the rating of the node's hotkey, 0 without a rating), and with
\* the node id of the node of the local hotkey as validator_node_id
C18_OneWeightPerNode ==
    pub.calls # <<>> =>
        LET call == pub.calls[1]
            nodes == pub_args.nodes
            hotkey_to_rating == pub_args.computed.ratings
        IN  /\ Len(pub.calls) = 1
            /\ Len(call.node_ids) = Len(nodes)
            /\ Len(call.node_weights) = Len(nodes)
            /\ \A i \in 1..Len(nodes) :
                  /\ call.node_ids[i] = nodes[i].node_id
                  /\ call.node_weights[i] =
                        IF nodes[i].hotkey \in DOMAIN hotkey_to_rating
                        THEN hotkey_to_rating[nodes[i].hotkey] ELSE 0
            /\ \E i \in 1..Len(nodes) :
                  /\ nodes[i].hotkey = Self
                  /\ call.validator_node_id = nodes[i].node_id

\* a submission for two nodes, the local one second in the list and the only
\* one with a rating
C18_Witness ==
    /\ pub.calls # <<>>
    /\ Len(pub_args.nodes) = 2
    /\ pub_args.nodes[2].hotkey = Self
    /\ DOMAIN pub_args.computed.ratings = {Self}
    /\ pub.calls[1].node_weights[1] = 0

\* the local hotkey is among the nodes the last run was given
IdentityFound == \E i \in 1..Len(pub_args.nodes) : pub_args.nodes[i].hotkey = Self

\* C17: a run that gets to publish without the local hotkey among the
\* ledger's nodes raises, having made no ledger call, and thereby ends the
\* publish loop; no other error ends the publish loop or the sync loop
C17_OnlyIdentityMissingStops ==
    /\ [][(PublishStep
              /\ now - get_last_set_weights_time(dynamic_config)
                      >= set_weights_interval
              /\ pub_args'.computed.raised = ""
              /\ any_rating(pub_args'.computed.ratings)
              /\ ~IdentityFound') =>
                (pub'.result = "ValueError" /\ pub'.calls = <<>>
                    /\ ~publish_loop_running')]_vars
    /\ [](~publish_loop_running =>
              (pub.result = "ValueError" /\ ~IdentityFound))
    /\ []sync_loop_running

-----------------------------------------------------------------------------
(* Mapping cache *)

\* a step of MappingManager.get_mapping
ReadStep == <<manager, read>>' # <<manager, read>>

\* C19: a read returns the cached snapshot without calling the source when
\* the time since the last refresh does not exceed the TTL, and reloads the
\* active mapping when it does; a read made more than TTL after the last
\* commit that changed the active mapping returns the active mapping
C19_CacheStaleness ==
    /\ [][ReadStep =>
              IF now - manager.last_update > cache_ttl
              THEN /\ read' = Got(load_mapping(reg), TRUE, now)
                   /\ manager' = [mapping |-> load_mapping(reg), last_update |-> now]
              ELSE /\ read' = Got(manager.mapping, FALSE, now)
                   /\ manager' = manager]_vars
    /\ [](read.time > changed_at + cache_ttl => read.value = load_mapping(reg))

\* a binding was committed after the start, and a read made more than TTL
\* later reloaded and returned it
C19_Witness ==
    /\ read.loaded
    /\ read.time > changed_at + cache_ttl
    /\ changed_at >= cache_ttl + 1
    /\ read.value # <<>>
    /\ read.value = load_mapping(reg)

-----------------------------------------------------------------------------
(* GET /hotkey_workers: pages of the listing *)

\* the bindings, active and unbound, registered after since_timestamp:
\* registration_time_int > since_timestamp * 1_000_000, both sides doubled
registered_since(table, since_timestamp) ==
    {r \in table : 2 * r.registration_time_int > since_timestamp}

\* C20: the bindings (active and unbound) with registration_time_int >
\* since * 1_000_000 form a sequence strictly ascending in
\* registration_time_int, and a listing call returns the elements of that
\* sequence at positions (page-1)*size .. page*size-1
C20_ListSinceStrictlyAscendingPages ==
    \A since_timestamp \in 0..(2 * MaxTime) :
      \A size \in 1..MaxRows : \A page_number \in 1..MaxRows :
        \A o \in order_by(registered_since(reg, since_timestamp)) :
          /\ \A i \in 1..(Len(o) - 1) :
                o[i].registration_time_int < o[i + 1].registration_time_int
          /\ get_hotkey_workers_by_time(reg, since_timestamp, size, page_number)
               = {[i \in 1..Len(page_of(o, size, page_number)) |->
                      worker_obj(page_of(o, size, page_number)[i])]}

-----------------------------------------------------------------------------
(* registration_time_int against registration_time *)

\* round(x * 1_000_000) of a float x given in half-microseconds: Python's
\* round, which takes an exact half to the even neighbour
round_micros(t) ==
    LET q == t \div 2
    IN  IF t % 2 = 0 THEN q ELSE IF q % 2 = 0 THEN q ELSE q + 1

\* C21: every binding, inserted by a local registration or by a sync merge,
\* has registration_time_int = round(registration_time * 1_000_000)
C21_ScaledIntIsRounded ==
    \A r \in reg : r.registration_time_int = round_micros(r.registration_time)

-----------------------------------------------------------------------------
(* The active mapping against binds and unbinds *)

\* the step inserted a row for the worker
BindSucceeds(w) == ~HasBinding(reg, w) /\ HasBinding(reg', w)

\* the step stored an unbind_signature on the worker's row
UnbindSucceeds(w) ==
    \E r \in reg : \E q \in reg' :
        r.worker = w /\ q.worker = w /\ r.unbind_signature # q.unbind_signature

\* the hotkey's workers in the mapping load_mapping returns
mapped_workers(table, hotkey) ==
    {w \in DOMAIN load_mapping(table) : load_mapping(table)[w] = hotkey}

\* C22: a worker is in the active mapping, under the hotkey of its binding,
\* from the step its bind succeeds until the step its unbind succeeds and
\* never afterwards, and the bindings the mapping reports for a hotkey are
\* the ones add_mapping counts against the quota
C22_ActiveMappingIsNotUnbound ==
    /\ [][\A w \in Workers :
            /\ BindSucceeds(w) =>
                  /\ w \in DOMAIN load_mapping(reg')
                  /\ \E r \in reg' : r.worker = w /\ r.hotkey = load_mapping(reg')[w]
            /\ UnbindSucceeds(w) => w \notin DOMAIN load_mapping(reg')
            /\ (w \in DOMAIN load_mapping(reg) /\ ~UnbindSucceeds(w)) =>
                  /\ w \in DOMAIN load_mapping(reg')
                  /\ load_mapping(reg')[w] = load_mapping(reg)[w]
            /\ (w \notin DOMAIN load_mapping(reg) /\ ~BindSucceeds(w)) =>
                  w \notin DOMAIN load_mapping(reg')]_vars
    /\ [](\A h \in Hotkeys :
            Cardinality(mapped_workers(reg, h)) = worker_count(reg, h))

\* one worker's unbind has succeeded and it is out of the mapping while
\* another worker is in it
C22_Witness ==
    /\ \E r \in reg : r.unbind_signature # None
                        /\ r.worker \notin DOMAIN load_mapping(reg)
    /\ DOMAIN load_mapping(reg) # {}

-----------------------------------------------------------------------------
(* The rating engine *)

\* the score 1.0 in units of 10^-ndigits
one_score == 10 ^ ndigits

\* C23: rate_all raises nothing and returns one score per input hotkey, each
\* within [0, 1], whatever the input: no hotkeys, hotkeys without workers,
\* no work at all, difficulties above max_difficulty, only invalid shares
C23_RateAllTotal ==
    /\ scored.raised = ""
    /\ DOMAIN scored.scores = DOMAIN hotkey_metrics
    /\ \A h \in DOMAIN hotkey_metrics :
          scored.scores[h] >= 0 /\ scored.scores[h] <= one_score

\* rate_all returned for a hotkey without workers and a hotkey whose work is
\* zero, one of whose workers has only invalid shares at a difficulty above
\* max_difficulty
C23_Witness ==
    /\ DOMAIN hotkey_metrics = Hotkeys
    /\ hotkey_metrics[<<2>>] = <<>>
    /\ Len(hotkey_metrics[Self]) = 2
    /\ compute_effective_work(hotkey_metrics[Self]) = Q(0, 1)
    /\ \E i \in 1..2 : /\ hotkey_metrics[Self][i].difficulty > max_difficulty
                       /\ hotkey_metrics[Self][i].valid_shares = 0
                       /\ hotkey_metrics[Self][i].invalid_shares > 0
    /\ scored.raised = ""
    /\ DOMAIN scored.scores = Hotkeys

\* C24: when the input of rate_all changes only in that one worker of a
\* hotkey has more valid shares, the hotkey's score does not decrease
C24_MoreValidSharesNeverLower ==
    [][\A h \in DOMAIN hotkey_metrics :
          hotkey_metrics' \in MoreValidShares(hotkey_metrics, h) =>
              scored'.scores[h] >= scored.scores[h]]_vars

\* a worker's valid shares went up and its hotkey's score went up with them
\* while another hotkey held the maximum work
C24_Witness ==
    /\ DOMAIN hotkey_metrics = Hotkeys
    /\ scored.scores[<<2>>] = one_score
    /\ scored.scores[Self] > 0
    /\ scored.scores[Self] < one_score
    /\ \E i \in 1..Len(hotkey_metrics[Self]) :
          hotkey_metrics[Self][i] \notin MetricsSamples(now)

\* the batch maximum of the effective work
batch_max(metrics) ==
    max_work_of([k \in DOMAIN metrics |-> compute_effective_work(metrics[k])])

\* (effective work / batch maximum, or 0 when the maximum is 0)
\*   * avg_uptime^uptime_alpha * (1 - (1 - quality) * penalty factor),
\* clamped to [0, 1]
clamped_product(metrics, h, time) ==
    LET work == compute_effective_work(metrics[h])
        share == IF batch_max(metrics).n = 0 THEN Q(0, 1)
                 ELSE truediv(work, batch_max(metrics)).value
        avg_uptime == compute_avg_uptime(metrics[h], time).value
        quality == compute_share_quality(metrics[h]).value
    IN  QMax(Q(0, 1), QMin(Q(1, 1),
            QMul(QMul(share, QPow(avg_uptime, uptime_alpha)),
                 QSub(Q(1, 1), QMul(QSub(Q(1, 1), quality),
                                    invalid_shares_penalty_factor)))))

\* no invalid shares and no difficulty above max_difficulty
clean(ms) ==
    \A i \in 1..Len(ms) :
        ms[i].invalid_shares = 0 /\ ms[i].difficulty <= max_difficulty

\* every worker was up for the whole window
fully_up(ms, time) ==
    ms # <<>> /\ \A i \in 1..Len(ms) : ms[i].uptime <= time - window_seconds

\* with no invalid shares and no difficulty above the maximum: full uptime
\* and the maximum work score 1.0, full uptime and half the maximum work
\* score 0.5, the maximum work of a single worker that started halfway
\* through the window scores 0.25 at alpha = 2
C25_Scenarios ==
    \A h \in DOMAIN hotkey_metrics :
        LET ms == hotkey_metrics[h]
            work == compute_effective_work(ms)
            most == batch_max(hotkey_metrics)
        IN  (clean(ms) /\ most.n > 0) =>
              /\ (fully_up(ms, now) /\ work = most) =>
                    scored.scores[h] = one_score
              /\ (fully_up(ms, now) /\ QAdd(work, work) = most) =>
                    scored.scores[h] = one_score \div 2
              /\ (/\ Len(ms) = 1
                  /\ 2 * (now - ms[1].uptime) = window_seconds
                  /\ work = most
                  /\ uptime_alpha = 2) =>
                    scored.scores[h] = one_score \div 4

uptime_fraction(s, time) ==
    IF s > time THEN Q(0, 1)
    ELSE IF s <= time - window_seconds THEN Q(1, 1)
    ELSE Q(time - s, window_seconds)

\* C26: a worker's uptime fraction is 0.0 for a start after now, 1.0 for a
\* start at or before now - W and (now - s)/W in between, so 0.0 at s = now,
\* 1.0 at s = now - W and 0.5 at s = now - W/2; a hotkey's average is the
\* mean of its workers' fractions and 0.0 without workers
C26_UptimeFraction ==
    \A h \in DOMAIN hotkey_metrics :
        LET ms == hotkey_metrics[h]
            avg == compute_avg_uptime(ms, now)
        IN  /\ \A i \in 1..Len(ms) :
                  LET s == ms[i].uptime
                      f == compute_fractional_uptime(s, now)
                  IN  /\ f = uptime_fraction(s, now)
                      /\ s = now => f = Q(0, 1)
                      /\ s = now - window_seconds => f = Q(1, 1)
                      /\ 2 * (now - s) = window_seconds => f = Q(1, 2)
            /\ avg.raised = ""
            /\ ms = <<>> => avg.value = Q(0, 1)
            /\ QMul(avg.value, Q(Len(ms), 1))
                 = QSum([i \in 1..Len(ms) |-> uptime_fraction(ms[i].uptime, now)])

\* a hotkey was rated with one worker that started halfway through the
\* window and one that started in the future: fractions 0.5 and 0.0, mean 0.25
C26_Witness ==
    /\ Self \in DOMAIN hotkey_metrics
    /\ Len(hotkey_metrics[Self]) = 2
    /\ 2 * (now - hotkey_metrics[Self][1].uptime) = window_seconds
    /\ hotkey_metrics[Self][2].uptime > now
    /\ compute_avg_uptime(hotkey_metrics[Self], now).value = Q(1, 4)
    /\ Self \in DOMAIN scored.scores

-----------------------------------------------------------------------------
(* compute_ratings against the mapping *)

\* a call of compute_ratings returned new ratings
ComputeReturns == ratevars' # ratevars /\ scored'.raised = ""

\* the ratings returned are those of the hotkeys of `mapping`: each mapped
\* worker is listed once under its hotkey, with its telemetry or with zero
\* work, and a hotkey none of whose workers has telemetry is rated 0
RatedFrom(mapping) ==
    LET hs == {mapping[w] : w \in DOMAIN mapping}
        has_telemetry(w) ==
            MinerKey(kaspa_pool_owner_wallet, w) \in DOMAIN fetched'.metrics
    IN  /\ DOMAIN scored'.scores = hs
        /\ DOMAIN hotkey_metrics' = hs
        /\ \A h \in hs :
              LET ws == {w \in DOMAIN mapping : mapping[w] = h}
                  ms == hotkey_metrics'[h]
              IN  /\ Len(ms) = Cardinality(ws)
                  /\ \A w \in ws : \E i \in 1..Len(ms) :
                        /\ ms[i].worker_name = w
                        /\ has_telemetry(w) =>
                              ms[i] = fetched'.metrics[
                                        MinerKey(kaspa_pool_owner_wallet, w)]
                        /\ ~has_telemetry(w) =>
                              compute_effective_work(<<ms[i]>>) = Q(0, 1)
                  /\ (\A w \in ws : ~has_telemetry(w)) => scored'.scores[h] = 0

-----------------------------------------------------------------------------
(* The HTTP surface *)

\* a step that answers a request to the handler `op`
Answers(op) == response' # response /\ response'.op = op

\* the binding a registration request asks for
requested(d) ==
    HotkeyWorker(d.worker, d.hotkey, d.registration_time,
                 int_micros(d.registration_time), d.signature)

\* the checks of a registration other than the naming policy
passes_other_checks(table, time, d, env) ==
    /\ within_tolerance(time, d.registration_time)
    /\ env = "ok"
    /\ verify_signature(d.hotkey, reg_json(d.hotkey, d.worker, d.registration_time),
                        d.signature)
    /\ ~HasBinding(table, d.worker)
    /\ Cardinality({r \in table : r.hotkey = d.hotkey /\ r.unbind_signature = None})
            < max_workers

when(condition, reason) == IF condition THEN {reason} ELSE {}

\* the reasons for which a request is to be rejected (invalid signature, stale
\* or future timestamp, naming violation, unknown worker, unregistered hotkey,
\* Conflict, QuotaExceeded for a registration; invalid signature, unregistered
\* hotkey, NotFound, AlreadyUnbound for an unbind)
reasons(op, table, time, d, env) ==
    IF op = "register_worker"
    THEN when(~within_tolerance(time, d.registration_time), "StaleOrFutureTimestamp")
         \cup when(~Contains(d.worker, d.hotkey), NamingPolicyViolation)
         \cup when(~verify_signature(d.hotkey,
                        reg_json(d.hotkey, d.worker, d.registration_time),
                        d.signature), "InvalidSignature")
         \cup when(env = "UnknownWorker", "UnknownWorker")
         \cup when(env = "UnregisteredHotkey", "UnregisteredHotkey")
         \cup when(HasBinding(table, d.worker), "Worker already registered")
         \cup when(Cardinality({r \in table : r.hotkey = d.hotkey
                                    /\ r.unbind_signature = None}) >= max_workers,
                   "Maximum number of workers for this hotkey reached")
    ELSE when(~(d.unbind_signature = "ab" /\ Owner(d.worker) = d.hotkey),
              "InvalidSignature")
         \cup when(env = "UnregisteredHotkey", "UnregisteredHotkey")
         \cup when(~\E r \in table : r.hotkey = d.hotkey /\ r.worker = d.worker,
                   "Worker not found for this hotkey")
         \cup when(\E r \in table : /\ r.hotkey = d.hotkey
                                    /\ r.worker = d.worker
                                    /\ r.unbind_signature # None,
                   "Worker already unbound")

\* a collaborator or the store fails during the request
internal_error(env) == env \in {"ClientError", "OperationalError"}

\* C29: a registration or unbind request that is to be rejected and meets no
\* internal error is answered with 400 carrying one of its reasons; a request
\* that meets an internal error is answered with the generic 500, or with 400
\* and one of its reasons when it is to be rejected as well; whenever the
\* answer is 400 or 500 the registry is the same after the request as before
C29_RejectionsAnd500 ==
    [][(Answers("register_worker") \/ Answers("unbind_worker")) =>
        LET why == reasons(response'.op, reg, now, response'.request, response'.env)
            rejected == response'.status = 400 /\ response'.detail \in why
            generic == /\ response'.status = 500
                       /\ response'.detail = "Internal server error"
        IN  /\ (why # {} /\ ~internal_error(response'.env)) => rejected
            /\ (why = {} /\ internal_error(response'.env)) => generic
            /\ (why # {} /\ internal_error(response'.env)) => rejected \/ generic
            /\ response'.status \in {400, 500} => reg' = reg]_vars

\* a second unbind of a binding was rejected as already unbound
C29_Witness ==
    /\ response.op = "unbind_worker"
    /\ response.status = 400
    /\ response.detail = "Worker already unbound"
    /\ \E r \in reg : r.worker = response.request.worker /\ r.unbind_signature = "ab"

-----------------------------------------------------------------------------
(* update_validator_sync_offset called with any argument *)

\* C30: update_validator_sync_offset never lowers the stored watermark: after
\* a call with any argument the stored last_registration_time of every peer
\* is at least what it was
C30_StoreNeverLowers ==
    [][\A p \in Peers :
          get_validator_sync_offset(offsets', p)
              >= get_validator_sync_offset(offsets, p)]_vars

-----------------------------------------------------------------------------
(* Sync orchestrator: counters of a batch *)

\* positions of the records of a response whose worker has a binding when
\* the record is processed: one held before the batch, or one an earlier
\* record of the batch may have created
KnownBefore(table, b) == {i \in 1..Len(b) : HasBinding(table, b[i].worker)}

\* positions of the records whose worker is not known, neither before the
\* batch nor from an earlier record of it, and that have a bad signature or
\* break the naming policy
Rejectable(table, b) ==
    {i \in 1..Len(b) :
        /\ ~HasBinding(table, b[i].worker)
        /\ \A j \in 1..(i - 1) : b[j].worker # b[i].worker
        /\ ~Verifies(b[i]) \/ ~Contains(b[i].worker, b[i].hotkey)}

\* C31: in an iteration of a sync pass every record of a known worker is
\* counted as skipped, every record of an unknown worker with a bad signature
\* or a naming violation is counted as failed, the iteration does not raise,
\* and added + skipped + failed is the number of fetched records
C31_PerRecordOutcomes ==
    pc = "sync" =>
        \A b \in AnyResponses :
            LET res == sync_validator(reg, offsets, Head(queue), b, now)
            IN  /\ res.raised = ""
                /\ res.added + res.skipped + res.failed = Len(b)
                /\ res.skipped >= Cardinality(KnownBefore(reg, b))
                /\ res.failed >= Cardinality(Rejectable(reg, b))

-----------------------------------------------------------------------------
(* Mapping cache: concurrent readers *)

\* C32: of the readers of one expiry only one makes the source load: two
\* tasks to which get_mapping returned after calling the source did so more
\* than cache_ttl apart, so a task that was waiting while another one
\* reloaded gets the reloaded snapshot without a second load
C32_OneLoadPerExpiry ==
    \A r1, r2 \in Readers :
        (/\ r1 # r2
         /\ readers[r1].pc = "returned" /\ readers[r1].loaded
         /\ readers[r2].pc = "returned" /\ readers[r2].loaded
         /\ readers[r1].time <= readers[r2].time)
            => readers[r2].time - readers[r1].time > cache_ttl

\* two tasks had called get_mapping with the snapshot expired; the first one
\* run made the source load, the other, run at the same instant, did not
C32_Witness ==
    /\ readers["r1"] = Returned_to(Got(read.value, TRUE, now), {"r2"})
    /\ readers["r2"].pc = "returned"
    /\ ~readers["r2"].loaded
    /\ readers["r2"].time = now
    /\ read.value # <<>>

-----------------------------------------------------------------------------
(* Sync orchestrator: what the stored offset says *)

\* C33: every binding of a peer that passes the naming and signature checks
\* and whose registration_time is at most the offset stored for the peer is
\* in the local registry
C33_WatermarkSound ==
    \A p \in Peers :
        \A r \in peerReg[p] :
            (Mergeable(r)
                /\ r.registration_time <= get_validator_sync_offset(offsets, p))
                => \E l \in reg : worker_obj(l) = worker_obj(r)

-----------------------------------------------------------------------------
(* Sync orchestrator: unbound bindings of a peer *)

\* the local registry and the registry of peer p hold the same bindings
Exchanged(p) ==
    {worker_obj(r) : r \in reg} = {worker_obj(r) : r \in peerReg[p]}

\* C34: an iteration of a sync pass does not create as active a binding that
\* is unbound in the peer's registry when it is fetched, and when the local
\* registry and the peer's hold the same bindings their active mappings are
\* equal
C34_SyncKeepsUnbound ==
    /\ [][SyncStep =>
            \A l \in reg' \ reg :
                \A r \in peerReg[Head(queue)] :
                    (r.worker = l.worker /\ r.unbind_signature # None)
                        => l.unbind_signature # None]_vars
    /\ [](\A p \in Peers :
            Exchanged(p)
                => load_mapping(reg) = load_mapping(peerReg[p]))

\* C35: the offset stored for a peer is 0.0 or the registration_time of a
\* binding of the local registry
C35_OffsetIsOfMergedBinding ==
    \A o \in offsets :
        \/ o.last_registration_time = 0
        \/ \E r \in reg : r.registration_time = o.last_registration_time

-----------------------------------------------------------------------------
(* The rating engine: workers without telemetry *)

\* the batch with one more worker of hotkey h, that worker having no
\* telemetry (MinerMetrics.default_instance)
with_idle_worker(metrics, h) ==
    dict_set(metrics, h, Append(metrics[h], default_instance(<<9>>)))

\* C36: adding a worker without telemetry to the worker list of a hotkey
\* does not increase the hotkey's final score
C36_IdleWorkerNeverRaises ==
    \A h \in DOMAIN hotkey_metrics :
        LET res == rate_all(with_idle_worker(hotkey_metrics, h), now)
        IN  /\ res.raised = ""
            /\ res.scores[h] <= rate_all(hotkey_metrics, now).scores[h]

====
